---- MODULE Spec2Model ----
(***************************************************************************)
(* Verification model of the RenderV2 engine core:                         *)
(*   - the resource cache (asset::ResourceManager): synchronous and        *)
(*     asynchronous loads, registerMesh, unloadMesh / unloadTexture;       *)
(*   - the transfer engine (vkcore::TransferManager, TransferToken);       *)
(*   - the frame loop (drawFrame in app.cpp, renderer::Renderer);          *)
(*   - the descriptor layout cache (vkcore::DescriptorSetLayoutCache);     *)
(*   - the shader cache (ResourceManager::loadShader) and batch loads;     *)
(*   - the descriptor set writer (vkcore::DescriptorSetWriter);            *)
(*   - the descriptor pool allocator (vkcore::DescriptorPoolAllocator);    *)
(*   - the per-thread command pools of the transfer engine;                *)
(*   - the mutexes of the resource caches around the loaders' steps;       *)
(*   - the resize of the swapchain and the pass runtimes' pipelines;       *)
(*   - the descriptor sets per shader prefix under concurrent callers.     *)
(* Each subsystem has its own specification over the shared variables;     *)
(* the variables of the other subsystems stay at their initial values.     *)
(***************************************************************************)
EXTENDS Integers, Sequences, FiniteSets, TLC

VARIABLES
    \* ---- resource cache (ResourceManager) ----
    cacheKind,    \* which of the parallel caches the behaviour follows: "mesh" or "texture"
    fileStatus,   \* what the file system holds at the asset's path
    loaded,       \* [name -> handle]  loadedMeshes / loadedTextures
    loading,      \* [name -> job]     loadingMeshes / loadingTextures (0 = absent)
    jobs,         \* executions of loadMesh / loadTexture (async tasks and direct calls)
    callerPc,     \* position of each calling thread
    callerPend,   \* the call a thread is in the middle of
    futuresOk,    \* every future returned so far belongs to a load of the requested id
    fileReads,    \* [name -> number of loader invocations]
    regCount,     \* number of registerMesh calls made
    \* ---- transfer engine (TransferManager, one thread's ThreadResources) ----
    tmConfig,     \* TransferManagerConfig given to initialize
    tmPhase,      \* "live", "cleaning" (cleanup waits for the fences), "dead"
    pool,         \* ThreadResources::stagingBufferPool
    subs,         \* every submission made: the PendingSubmission record and its token state
    fencePool,    \* ThreadResources::fencePool
    fences,       \* status of every fence created
    tmLast,       \* outcome of the last call made by a caller
    cmdBuffers,   \* command buffers allocated from the thread's command pools and not freed
    faults,       \* device calls that have failed so far
    stLast,       \* the last call on the staging pool: its arguments and result
    \* ---- frame loop (drawFrame, Renderer) ----
    numImages,          \* number of images of the current swapchain
    maxFramesInFlight,  \* size of the fence ring, fixed when the loop is set up
    currentFrame,       \* index into the fence ring
    frameNo,            \* number of frames recorded and submitted so far
    inFlightFences,     \* the fence ring
    inFlight,           \* frames submitted and not yet finished by the GPU, oldest first
    frameResources,     \* Renderer::m_frameResources, one PerFrameGpuResources per slot
    descriptorSets,     \* ResourceManager::m_descriptorSets, keyed by shader prefix
    lastWrite,          \* the descriptor sets the last recorded frame wrote
    \* ---- descriptor set layout cache (DescriptorSetLayoutCache) ----
    lcAlive,            \* the cache exists (cleanup is followed by its deletion)
    schemas,            \* every DescriptorSetSchema created; a handle is its index
    schemasByKey,       \* m_schemasByKey: structural key -> schema (strong)
    schemasByName,      \* m_schemasByName: name key -> schema (weak)
    regLog,             \* the successful registerSetLayout calls: arguments and handle
    regCalls,           \* number of registerSetLayout calls made
    lcLast,             \* outcome of the last call on the cache
    \* ---- shader cache (ResourceManager::m_shaderCache) ----
    shaderFs,           \* what each directory holds under each shader name
    loadedShaders,      \* m_shaderCache.loadedShaders: key -> shaderProgram
    shLast,             \* outcome of the last loadShader / getShaderprogram call
    \* ---- batch load (loadMeshesAsync / loadTexturesAsync) ----
    batch,              \* the batch task: its position, its futures, its result
    \* ---- descriptor set writer (DescriptorSetWriter) ----
    wSchema,            \* m_schema: the bindings of the writer's schema
    bufferWrites,       \* m_bufferWrites
    imageWrites,        \* m_imageWrites
    deviceSet,          \* the descriptor set on the device: binding -> array elements written
    flushed,            \* the writes of the last update call
    wCalls,             \* number of calls made on the writer
    wLast,              \* outcome of the last call on the writer
    \* ---- descriptor pool allocator (DescriptorPoolAllocator) ----
    descriptorPools,    \* the device's descriptor pools: handle -> status, sets left
    m_usedPools,        \* m_usedPools
    m_freePools,        \* m_freePools
    m_currentPool,      \* m_currentPool; NullPool is the null handle
    paLast,             \* outcome of the last call on the allocator
    \* ---- per-thread command pools (TransferManager::m_threadResources) ----
    m_ctx,              \* m_ctx is set: the engine is initialized
    m_threadResources,  \* [thread -> its ThreadResources, if it has one]
    poolUses,           \* every use made of a command pool: its creator, the user, the call
    \* ---- resource-cache mutexes (MeshCache / TextureCache / ShaderCache ::mutex) ----
    cacheMutex,         \* [cache -> the thread inside a lock_guard on its mutex, or "none"]
    loaderAt,           \* [thread -> the function it runs and the part of it it is in]
    inCache,            \* [cache -> the id the threads use is in the loaded map]
    \* ---- resize (recreateSwapchainResources of app.cpp, Renderer::onResize) ----
    m_swapchainImageFormat,  \* VkContext::m_swapchainImageFormat
    passFormat,         \* format of the main pass's colour attachment in Renderer::m_config
    m_pipelineCache,    \* GraphicsPipelineLibrary::m_pipelineCache: key -> pipeline
    m_passRuntimes,     \* Renderer::m_passRuntimes
    gpuFrames,          \* frames submitted to the device and not finished
    deviceCalls,        \* the device calls of the last resize: the call, its function, the
                        \* frames unfinished when it was made
    resizeCount,        \* number of resizes handled
    \* ---- descriptor sets per shader prefix under concurrent callers (ResourceManager::m_descriptorSets) ----
    setsByPrefix,       \* m_descriptorSets: [prefix -> the sets stored, <<>> if none]
    setCaller,          \* [thread -> the call it is in: its part, prefix, allocatedSets]
    setsAllocated,      \* number of descriptor sets allocated from the pool so far
    allocations,        \* [prefix -> number of calls that allocated its sets]
    setsReturned,       \* [prefix -> the set vectors returned by the calls so far]
    \* ---- asset::Scene ----
    m_nextId,           \* Scene::m_nextId, uint32_t
    m_activeCameraId,   \* Scene::m_activeCameraId, 0 for none
    m_nodes,            \* Scene::m_nodes: the nodes in creation order, each [id, type]
    \* ---- VkResourceAllocator and the Managed wrappers ----
    m_allocator,        \* VkResourceAllocator::m_allocator: null or live
    raCtx,              \* VkResourceAllocator::m_ctx is set
    deviceObjects,      \* the buffers, images, views and samplers created, each [kind, destroyed: number of destroy calls]
    wrappers,           \* [slot -> ManagedBuffer / ManagedImage / ManagedSampler object]
    raLast,             \* the last call on the allocator or a wrapper
    \* ---- MaterialManager ----
    m_materials,        \* MaterialManager::m_materials: [id -> its object, NoMaterial if none]
    materialObjects,    \* the PBRMaterial objects made by make_shared, each [created, payload]
    materialHolders,    \* the objects handed out by getMaterial
    \* ---- Renderer::recordFrame ----
    m_passes,           \* RenderPassSequence::m_passes of the configuration: the pass names in the order added
    rfRuntimes,         \* Renderer::m_passRuntimes: the pass of each runtime
    m_scene,            \* Renderer::m_scene: unset, null or scene
    rfAt,               \* where the program is: config, idle, or the statement of recordFrame
    rfUploads,          \* [camera, light -> none, pending, signaled]: the uploads of the frame
    rfRecorded          \* the passes recordPass has recorded in the frame

cacheVars == <<cacheKind, fileStatus, loaded, loading, jobs, callerPc, callerPend, futuresOk,
               fileReads, regCount>>
transferVars == <<tmConfig, tmPhase, pool, subs, fencePool, fences, tmLast, cmdBuffers, faults,
                  stLast>>

frameVars == <<numImages, maxFramesInFlight, currentFrame, frameNo, inFlightFences, inFlight,
               frameResources, descriptorSets, lastWrite>>

layoutVars == <<lcAlive, schemas, schemasByKey, schemasByName, regLog, regCalls, lcLast>>

shaderVars == <<shaderFs, loadedShaders, shLast>>

batchVars == <<batch>>

writerVars == <<wSchema, bufferWrites, imageWrites, deviceSet, flushed, wCalls, wLast>>

allocatorVars == <<descriptorPools, m_usedPools, m_freePools, m_currentPool, paLast>>

threadVars == <<m_ctx, m_threadResources, poolUses>>

lockVars == <<cacheMutex, loaderAt, inCache>>

resizeVars == <<m_swapchainImageFormat, passFormat, m_pipelineCache, m_passRuntimes, gpuFrames,
                deviceCalls, resizeCount>>

setCacheVars == <<setsByPrefix, setCaller, setsAllocated, allocations, setsReturned>>

sceneVars == <<m_nextId, m_activeCameraId, m_nodes>>

resourceVars == <<m_allocator, raCtx, deviceObjects, wrappers, raLast>>

materialVars == <<m_materials, materialObjects, materialHolders>>

recordVars == <<m_passes, rfRuntimes, m_scene, rfAt, rfUploads, rfRecorded>>

vars == <<cacheVars, transferVars, frameVars, layoutVars, shaderVars, batchVars, writerVars,
          allocatorVars, threadVars, lockVars, resizeVars, setCacheVars, sceneVars, resourceVars, materialVars, recordVars>>

\* What an operation of the resource cache leaves alone.
nonCacheVars == <<transferVars, frameVars, layoutVars, shaderVars, batchVars, writerVars,
                  allocatorVars, threadVars, lockVars, resizeVars, setCacheVars, sceneVars, resourceVars, materialVars, recordVars>>
\* What an operation of the transfer engine leaves alone.
nonTransferVars == <<cacheVars, frameVars, layoutVars, shaderVars, batchVars, writerVars,
                     allocatorVars, threadVars, lockVars, resizeVars, setCacheVars, sceneVars, resourceVars, materialVars, recordVars>>
\* What a step of the frame loop leaves alone.
nonFrameVars == <<cacheVars, transferVars, layoutVars, shaderVars, batchVars, writerVars,
                  allocatorVars, threadVars, lockVars, resizeVars, setCacheVars, sceneVars, resourceVars, materialVars, recordVars>>
\* What a call on the layout cache leaves alone.
nonLayoutVars == <<cacheVars, transferVars, frameVars, shaderVars, batchVars, writerVars,
                   allocatorVars, threadVars, lockVars, resizeVars, setCacheVars, sceneVars, resourceVars, materialVars, recordVars>>
\* What a shader load, which registers layouts, leaves alone.
outsideShaderLoad == <<cacheVars, transferVars, frameVars, batchVars, writerVars,
                       allocatorVars, threadVars, lockVars, resizeVars, setCacheVars, sceneVars, resourceVars, materialVars, recordVars>>
\* What a batch load leaves alone beside the resource cache.
outsideBatchLoad == <<transferVars, frameVars, layoutVars, shaderVars, writerVars,
                      allocatorVars, threadVars, lockVars, resizeVars, setCacheVars, sceneVars, resourceVars, materialVars, recordVars>>
\* What a call on the descriptor set writer leaves alone.
nonWriterVars == <<cacheVars, transferVars, frameVars, layoutVars, shaderVars, batchVars,
                   allocatorVars, threadVars, lockVars, resizeVars, setCacheVars, sceneVars, resourceVars, materialVars, recordVars>>
\* What a lookup in the shader cache leaves alone.
nonShaderVars == <<cacheVars, transferVars, frameVars, layoutVars, batchVars, writerVars,
                   allocatorVars, threadVars, lockVars, resizeVars, setCacheVars, sceneVars, resourceVars, materialVars, recordVars>>
\* What a call on the descriptor pool allocator leaves alone.
nonAllocatorVars == <<cacheVars, transferVars, frameVars, layoutVars, shaderVars, batchVars,
                      writerVars, threadVars, lockVars, resizeVars, setCacheVars, sceneVars, resourceVars, materialVars, recordVars>>
\* What a call of a thread on the transfer engine's command pools leaves alone.
nonThreadVars == <<cacheVars, transferVars, frameVars, layoutVars, shaderVars, batchVars,
                   writerVars, allocatorVars, lockVars, resizeVars, setCacheVars, sceneVars, resourceVars, materialVars, recordVars>>
\* What a step of a loader between its lock_guard blocks leaves alone.
nonLockVars == <<cacheVars, transferVars, frameVars, layoutVars, shaderVars, batchVars,
                 writerVars, allocatorVars, threadVars, resizeVars, setCacheVars, sceneVars, resourceVars, materialVars, recordVars>>
\* What the render thread's frames and resizes leave alone.
nonResizeVars == <<cacheVars, transferVars, frameVars, layoutVars, shaderVars, batchVars,
                   writerVars, allocatorVars, threadVars, lockVars, setCacheVars, sceneVars, resourceVars, materialVars, recordVars>>
\* What a getOrAllocateDescriptorSet call of a thread leaves alone.
nonSetCacheVars == <<cacheVars, transferVars, frameVars, layoutVars, shaderVars, batchVars, writerVars, allocatorVars, threadVars, lockVars, resizeVars, sceneVars, resourceVars, materialVars, recordVars>>
\* What a call on the Scene leaves alone.
nonSceneVars == <<cacheVars, transferVars, frameVars, layoutVars, shaderVars, batchVars, writerVars, allocatorVars, threadVars, lockVars, resizeVars, setCacheVars, resourceVars, materialVars, recordVars>>
\* What a call on the resource allocator or a wrapper leaves alone.
nonResourceVars == <<cacheVars, transferVars, frameVars, layoutVars, shaderVars, batchVars, writerVars, allocatorVars, threadVars, lockVars, resizeVars, setCacheVars, sceneVars, materialVars, recordVars>>
\* What a call on the material manager leaves alone.
nonMaterialVars == <<cacheVars, transferVars, frameVars, layoutVars, shaderVars, batchVars, writerVars, allocatorVars, threadVars, lockVars, resizeVars, setCacheVars, sceneVars, resourceVars, recordVars>>
\* What a step of recordFrame leaves alone.
nonRecordVars == <<cacheVars, transferVars, frameVars, layoutVars, shaderVars, batchVars, writerVars, allocatorVars, threadVars, lockVars, resizeVars, setCacheVars, sceneVars, resourceVars, materialVars>>

(***************************************************************************)
(* Bounds of the model.                                                    *)
(***************************************************************************)
MaxJobs == 2
MaxRegs == 1

(***************************************************************************)
(* Resource cache.  The mesh and the texture cache are separate maps under *)
(* separate mutexes with the same code; a behaviour follows one of them.   *)
(***************************************************************************)
Kinds == {"mesh", "texture"}
\* The calling threads.
Callers == {"t1", "t2"}

\* Paths are sequences of path elements; an absolute path starts with "/".
Cwd == <<"/", "w">>
\* Spellings of the path of one asset file.
Paths == {<<"a">>, <<".", "a">>, <<"x", "..", "a">>, <<"/", "w", "a">>}

IsAbsolute(p) == Len(p) > 0 /\ p[1] = "/"

\* std::filesystem::absolute
Absolute(p) == IF IsAbsolute(p) THEN p ELSE Cwd \o p

\* path::lexically_normal: "." elements are dropped, "x/.." cancels.
RECURSIVE LexicallyNormal(_, _)
LexicallyNormal(p, acc) ==
    IF p = <<>> THEN acc
    ELSE IF Head(p) = "." THEN LexicallyNormal(Tail(p), acc)
    ELSE IF Head(p) = ".." /\ Len(acc) > 1
         THEN LexicallyNormal(Tail(p), SubSeq(acc, 1, Len(acc) - 1))
    ELSE LexicallyNormal(Tail(p), Append(acc, Head(p)))

normalizeResourcePath(p) == LexicallyNormal(Absolute(p), <<>>)

DefaultCube == <<"default_cube">>
DefaultWhite == <<"default_white">>
DefaultName(k) == IF k = "mesh" THEN DefaultCube ELSE DefaultWhite
IdA == normalizeResourcePath(<<"a">>)
Names == {DefaultCube, DefaultWhite} \cup {normalizeResourcePath(p) : p \in Paths}

\* The file system the loaders see: the asset file is a good asset ("ok"), is
\* absent ("missing": exists() fails) or is unusable ("bad": the loader reads
\* it and fails, or yields nothing).
FileStatuses == {"ok", "missing", "bad"}

NoHandle == <<>>
BuiltinHandle == <<"builtin">>
JobHandle(j) == <<"job", j>>
RegHandle(n) == <<"reg", n>>

NoPend == [id |-> <<>>, job |-> 0]

\* ResourceManager::ResourceManager
CacheCtor(k) ==
    /\ cacheKind = k
    /\ fileStatus \in FileStatuses
    /\ loaded = [n \in Names |-> IF n = DefaultName(k) THEN BuiltinHandle ELSE NoHandle]
    /\ loading = [n \in Names |-> 0]
    /\ jobs = <<>>
    /\ callerPc = [c \in Callers |-> "idle"]
    /\ callerPend = [c \in Callers |-> NoPend]
    /\ futuresOk = TRUE
    /\ fileReads = [n \in Names |-> 0]
    /\ regCount = 0

CacheInit == \E k \in Kinds : CacheCtor(k)

IsLoaded(n) == loaded[n] # NoHandle
IsLoading(n) == loading[n] # 0

\* Variant of TryEmplace: the entry is assigned, an existing one is replaced.
TryEmplace_Assign(m, n, v, none) == [m EXCEPT ![n] = v]

\* unordered_map::try_emplace / emplace: an existing entry is kept.
TryEmplace(m, n, v, none) == IF m[n] = none THEN [m EXCEPT ![n] = v] ELSE m

\* A load in progress.  It holds the normalised id: the resourceId the task
\* captured and the id loadMesh computes again from the captured path are the
\* same normalisation of the same path.
NewJob(id, isAsync, startPc) ==
    [id |-> id, async |-> isAsync, pc |-> startPc, res |-> "none", rid |-> <<>>]

\* loadMeshAsync / loadTextureAsync, first critical section: the loaded and
\* loading lookups.  A hit returns at once (a ready future of the id, or the
\* registered future); a miss leaves the lock and goes on to build the task.
LoadAsyncLookup(c, p) ==
    LET id == normalizeResourcePath(p)
    IN /\ callerPc[c] = "idle"
       /\ IF IsLoaded(id)
          THEN UNCHANGED <<callerPc, callerPend, futuresOk>>
          ELSE IF IsLoading(id)
          THEN /\ futuresOk' = (futuresOk /\ jobs[loading[id]].id = id)
               /\ UNCHANGED <<callerPc, callerPend>>
          ELSE /\ Len(jobs) < MaxJobs
               /\ callerPc' = [callerPc EXCEPT ![c] = "mkTask"]
               /\ callerPend' = [callerPend EXCEPT ![c] = [id |-> id, job |-> 0]]
               /\ UNCHANGED futuresOk
       /\ UNCHANGED <<cacheKind, fileStatus, loaded, loading, jobs, fileReads, regCount>>
       /\ UNCHANGED nonCacheVars

\* loadMeshAsync / loadTextureAsync, the rest of the call: the task and its
\* shared future are made, the future is emplaced into the loading map under
\* the lock, the worker thread is started and the task's own future returned.
LoadAsyncRegister(c) ==
    /\ callerPc[c] = "mkTask"
    /\ Len(jobs) < MaxJobs
    /\ LET pd == callerPend[c]
           j == Len(jobs) + 1
       IN /\ jobs' = Append(jobs, NewJob(pd.id, TRUE, "start"))
          /\ loading' = TryEmplace(loading, pd.id, j, 0)
          /\ futuresOk' = (futuresOk /\ jobs'[j].id = pd.id)
    /\ callerPend' = [callerPend EXCEPT ![c] = NoPend]
    /\ callerPc' = [callerPc EXCEPT ![c] = "idle"]
    /\ UNCHANGED <<cacheKind, fileStatus, loaded, fileReads, regCount>>
    /\ UNCHANGED nonCacheVars

\* A direct call of loadMesh / loadTexture by a thread: the thread runs the
\* load itself and continues when it has returned or thrown.
LoadSyncCall(c, p) ==
    /\ callerPc[c] = "idle"
    /\ Len(jobs) < MaxJobs
    /\ jobs' = Append(jobs, NewJob(normalizeResourcePath(p), FALSE, "start"))
    /\ callerPc' = [callerPc EXCEPT ![c] = "sync"]
    /\ callerPend' = [callerPend EXCEPT ![c] =
                         [id |-> normalizeResourcePath(p), job |-> Len(jobs) + 1]]
    /\ UNCHANGED <<cacheKind, fileStatus, loaded, loading, futuresOk, fileReads, regCount>>
    /\ UNCHANGED nonCacheVars

\* Where a load goes when loadMesh / loadTexture has returned or thrown: an
\* async task runs ~LoadingEraser next, a direct call is over.
AfterLoad(job) == IF job.async THEN "erase" ELSE "done"

\* The thread blocked in a direct call continues when the call is over.
ReturnToCaller(j, job) ==
    IF job.pc = "done"
    THEN /\ callerPc' = [c \in Callers |->
                IF callerPc[c] = "sync" /\ callerPend[c].job = j THEN "idle" ELSE callerPc[c]]
         /\ callerPend' = [c \in Callers |->
                IF callerPc[c] = "sync" /\ callerPend[c].job = j THEN NoPend ELSE callerPend[c]]
    ELSE UNCHANGED <<callerPc, callerPend>>

\* loadMesh / loadTexture up to the second critical section: the exists()
\* check, the loaded lookup under the lock and, on a miss, the file read and
\* parse outside the lock (ModelLoader / TextureLoader ::loadFromFile).
LoadedAfterCheck(job, st) ==
    IF st = "missing"
    THEN [job EXCEPT !.pc = AfterLoad(job), !.res = "error"]
    ELSE IF IsLoaded(job.id)
    THEN [job EXCEPT !.pc = AfterLoad(job), !.res = "value", !.rid = job.id]
    ELSE IF st = "bad"
    THEN [job EXCEPT !.pc = AfterLoad(job), !.res = "error"]
    ELSE [job EXCEPT !.pc = "insert"]

LoadCheck(j) ==
    /\ j \in 1..Len(jobs)
    /\ jobs[j].pc = "start"
    /\ LET job == LoadedAfterCheck(jobs[j], fileStatus)
           read == fileStatus # "missing" /\ ~IsLoaded(jobs[j].id)
       IN /\ jobs' = [jobs EXCEPT ![j] = job]
          /\ fileReads' = IF read THEN [fileReads EXCEPT ![job.id] = @ + 1] ELSE fileReads
          /\ ReturnToCaller(j, job)
    /\ UNCHANGED <<cacheKind, fileStatus, loaded, loading, futuresOk, regCount>>
    /\ UNCHANGED nonCacheVars

\* Variant of LoadInsert: a task whose loading entry has gone gives up its
\* result instead of inserting it.
LoadInsert_UnlessUnloaded(j) ==
    /\ j \in 1..Len(jobs)
    /\ jobs[j].pc = "insert"
    /\ LET job == [jobs[j] EXCEPT !.pc = AfterLoad(jobs[j]), !.res = "value",
                                  !.rid = jobs[j].id]
       IN /\ loaded' = IF job.async /\ loading[job.id] = 0 THEN loaded
                        ELSE TryEmplace(loaded, job.id, JobHandle(j), NoHandle)
          /\ jobs' = [jobs EXCEPT ![j] = job]
          /\ ReturnToCaller(j, job)
    /\ UNCHANGED <<cacheKind, fileStatus, loading, futuresOk, fileReads, regCount>>
    /\ UNCHANGED nonCacheVars

\* loadMesh / loadTexture: the second critical section, try_emplace of the
\* freshly made shared handle, and the return of the id.
LoadInsert(j) ==
    /\ j \in 1..Len(jobs)
    /\ jobs[j].pc = "insert"
    /\ LET job == [jobs[j] EXCEPT !.pc = AfterLoad(jobs[j]), !.res = "value",
                                  !.rid = jobs[j].id]
       IN /\ loaded' = TryEmplace(loaded, job.id, JobHandle(j), NoHandle)
          /\ jobs' = [jobs EXCEPT ![j] = job]
          /\ ReturnToCaller(j, job)
    /\ UNCHANGED <<cacheKind, fileStatus, loading, futuresOk, fileReads, regCount>>
    /\ UNCHANGED nonCacheVars

\* ~LoadingEraser: cache.loadingMeshes.erase(id) under the lock.
EraseLoading(m, id) == [m EXCEPT ![id] = 0]

\* Variant of TaskErase: the loading entry is erased at the end of the normal
\* path only, not by a scope guard, so a load that throws leaves it behind.
TaskErase_OnSuccessOnly(j) ==
    /\ j \in 1..Len(jobs)
    /\ jobs[j].pc = "erase"
    /\ loading' = IF jobs[j].res = "value" THEN EraseLoading(loading, jobs[j].id) ELSE loading
    /\ jobs' = [jobs EXCEPT ![j].pc = "publish"]
    /\ UNCHANGED <<cacheKind, fileStatus, loaded, callerPc, callerPend, futuresOk, fileReads, regCount>>
    /\ UNCHANGED nonCacheVars

\* The task's lambda unwinds (return or exception): ~LoadingEraser runs.
TaskErase(j) ==
    /\ j \in 1..Len(jobs)
    /\ jobs[j].pc = "erase"
    /\ loading' = EraseLoading(loading, jobs[j].id)
    /\ jobs' = [jobs EXCEPT ![j].pc = "publish"]
    /\ UNCHANGED <<cacheKind, fileStatus, loaded, callerPc, callerPend, futuresOk, fileReads, regCount>>
    /\ UNCHANGED nonCacheVars

\* std::packaged_task: the lambda has returned or thrown, the shared state is
\* made ready with the value or the exception.
TaskReady(j) ==
    /\ j \in 1..Len(jobs)
    /\ jobs[j].pc = "publish"
    /\ jobs' = [jobs EXCEPT ![j].pc = "done"]
    /\ UNCHANGED <<cacheKind, fileStatus, loaded, loading, callerPc, callerPend, futuresOk,
                   fileReads, regCount>>
    /\ UNCHANGED nonCacheVars

\* ResourceManager::registerMesh
RegisterMesh(c, n) ==
    /\ cacheKind = "mesh"
    /\ callerPc[c] = "idle"
    /\ regCount < MaxRegs
    /\ regCount' = regCount + 1
    /\ loaded' = TryEmplace(loaded, n, RegHandle(regCount + 1), NoHandle)
    /\ UNCHANGED <<loading, jobs, cacheKind, fileStatus, callerPc, callerPend, futuresOk, fileReads>>
    /\ UNCHANGED nonCacheVars

\* ResourceManager::unloadMesh / unloadTexture
Unload(c, n) ==
    /\ callerPc[c] = "idle"
    /\ loading' = [loading EXCEPT ![n] = 0]
    /\ loaded' = [loaded EXCEPT ![n] = NoHandle]
    /\ UNCHANGED <<cacheKind, fileStatus, jobs, callerPc, callerPend, futuresOk, fileReads, regCount>>
    /\ UNCHANGED nonCacheVars

JobStep ==
    \E j \in 1..MaxJobs :
        \/ LoadCheck(j)
        \/ LoadInsert(j)
        \/ TaskErase(j)
        \/ TaskReady(j)

AsyncCall ==
    \E c \in Callers :
        \/ \E p \in Paths : LoadAsyncLookup(c, p)
        \/ LoadAsyncRegister(c)

CacheNext ==
    \/ AsyncCall
    \/ JobStep
    \/ \E c \in Callers, p \in Paths : LoadSyncCall(c, p)
    \/ \E c \in Callers, n \in {DefaultCube, IdA} : RegisterMesh(c, n)
    \/ \E c \in Callers, n \in {DefaultName(cacheKind), IdA} : Unload(c, n)

\* Only asynchronous loads are issued: no direct load, register or unload.
AsyncNext ==
    \/ AsyncCall
    \/ JobStep

\* No thread is inside a call and every load that was started is over.
Quiescent ==
    /\ \A c \in Callers : callerPc[c] = "idle"
    /\ \A j \in 1..Len(jobs) : jobs[j].pc = "done"

(***************************************************************************)
(* Batch loads: loadMeshesAsync / loadTexturesAsync.  The batch task runs  *)
(* on a thread of its own beside the element loads it starts.              *)
(***************************************************************************)
BatchLen == 2

\* The path lists a batch is called with.
BatchPaths == [1..BatchLen -> Paths]

\* A shared_future<std::string>: made ready by loadMeshAsync itself (the id
\* was loaded), or the future of the task of a job.
ReadyFuture(id) == [kind |-> "ready", id |-> id, job |-> 0]
JobFuture(j) == [kind |-> "job", id |-> <<>>, job |-> j]

FutureReady(f) == IF f.kind = "ready" THEN TRUE ELSE jobs[f.job].pc = "done"

\* What get() gives on a ready future: the value, or the stored exception.
FutureThrows(f) == f.kind = "job" /\ jobs[f.job].res = "error"
FutureValue(f) == IF f.kind = "ready" THEN f.id ELSE jobs[f.job].rid

NoBatch == [pc |-> "none", paths |-> <<>>, futures |-> <<>>, ids |-> <<>>, res |-> "none"]

BatchInit == batch = NoBatch

\* loadMeshesAsync / loadTexturesAsync: the task is made with a copy of the
\* paths and started on a detached thread; its future is returned.
BatchCall(filepaths) ==
    /\ batch.pc = "none"
    /\ batch' = [NoBatch EXCEPT !.pc = "calls", !.paths = filepaths]
    /\ UNCHANGED cacheVars
    /\ UNCHANGED outsideBatchLoad

\* Where the batch task goes when it has the future of one more path: on to
\* the next path, or to the loop of get() calls.
BatchWithFuture(f) ==
    [batch EXCEPT !.futures = Append(@, f),
                  !.pc = IF Len(batch.futures) + 1 = Len(batch.paths) THEN "gets" ELSE "calls"]

\* The batch task's loadMeshAsync call for the next path, first critical
\* section: a loaded or loading hit returns a future at once.
BatchLookup ==
    /\ batch.pc = "calls"
    /\ LET id == normalizeResourcePath(batch.paths[Len(batch.futures) + 1])
       IN IF IsLoaded(id) THEN batch' = BatchWithFuture(ReadyFuture(id))
          ELSE IF IsLoading(id) THEN batch' = BatchWithFuture(JobFuture(loading[id]))
          ELSE Len(jobs) < MaxJobs /\ batch' = [batch EXCEPT !.pc = "mkTask"]
    /\ UNCHANGED cacheVars
    /\ UNCHANGED outsideBatchLoad

\* The batch task's loadMeshAsync call, the rest: the element task is made,
\* its future emplaced into the loading map, its thread started.
BatchRegister ==
    /\ batch.pc = "mkTask"
    /\ Len(jobs) < MaxJobs
    /\ LET id == normalizeResourcePath(batch.paths[Len(batch.futures) + 1])
           j == Len(jobs) + 1
       IN /\ jobs' = Append(jobs, NewJob(id, TRUE, "start"))
          /\ loading' = TryEmplace(loading, id, j, 0)
          /\ batch' = BatchWithFuture(JobFuture(j))
    /\ UNCHANGED <<cacheKind, fileStatus, loaded, callerPc, callerPend, futuresOk, fileReads, regCount>>
    /\ UNCHANGED outsideBatchLoad

\* The batch task's f.get() on the next future, which returns when the
\* future is ready.  A value is pushed to ids, and after the last one the
\* task returns ids; a stored exception leaves the task, and the batch
\* future is made ready with it.
BatchGet ==
    /\ batch.pc = "gets"
    /\ LET f == batch.futures[Len(batch.ids) + 1]
       IN /\ FutureReady(f)
          /\ batch' = IF FutureThrows(f)
                      THEN [batch EXCEPT !.pc = "done", !.res = "error"]
                      ELSE [batch EXCEPT !.ids = Append(@, FutureValue(f)),
                                         !.pc = IF Len(batch.ids) + 1 = Len(batch.futures)
                                                THEN "done" ELSE "gets",
                                         !.res = IF Len(batch.ids) + 1 = Len(batch.futures)
                                                 THEN "value" ELSE "none"]
    /\ UNCHANGED cacheVars
    /\ UNCHANGED outsideBatchLoad

\* One batch load and the element loads it starts.
BatchNext ==
    \/ \E filepaths \in BatchPaths : BatchCall(filepaths)
    \/ BatchLookup
    \/ BatchRegister
    \/ BatchGet
    \/ JobStep

(***************************************************************************)
(* Transfer engine.  One TransferManager used by one submitting thread, so  *)
(* one ThreadResources record; token holders and the GPU run beside it.     *)
(* Sizes and offsets are in blocks.                                         *)
(***************************************************************************)
MaxSubmits == 4
MaxPooled == 1
MaxFaults == 1
\* Submissions followed on a device whose calls can fail.
MaxDeviceSubmits == 2

Max2(a, b) == IF a >= b THEN a ELSE b
Min2(a, b) == IF a <= b THEN a ELSE b

\* TransferManagerConfig: pooling on or off, the pool limit, and the minimum
\* and maximum size of a pooled staging buffer.
Configs ==
    {[enable |-> e, maxPooled |-> n, minSize |-> 2, maxSize |-> 4] :
        e \in BOOLEAN, n \in {MaxPooled}}

\* Arguments of uploadToBuffer / copyBuffer: the size, the destination offset
\* and the size of the destination buffer.
TransferArgs ==
    {[size |-> sz, dstOffset |-> o, bufferSize |-> 2] : sz \in {1, 2}, o \in {0, 1, 2}}

NoCall == [op |-> "none", tok |-> 0, cause |-> "none", outcome |-> "none"]
NoStagingCall == [op |-> "none", size |-> 0, idx |-> 0, len |-> 0]

\* TransferManager::initialize
TransferInitWith(cfg) ==
    /\ tmConfig = cfg
    /\ tmPhase = "live"
    /\ pool = <<>>
    /\ subs = <<>>
    /\ fencePool = <<>>
    /\ fences = <<>>
    /\ tmLast = NoCall
    /\ cmdBuffers = 0
    /\ faults = 0
    /\ stLast = NoStagingCall

TransferInit == \E cfg \in Configs : TransferInitWith(cfg)

\* The size acquireStagingBuffer allocates for a new pooled buffer.
PooledAllocSize(size) ==
    LET allocSize == Max2(size, tmConfig.minSize)
    IN IF tmConfig.maxSize > 0
       THEN Max2(size, Min2(allocSize, tmConfig.maxSize))
       ELSE allocSize

StagingBuffer(b, sz) == [buf |-> b, size |-> sz, inUse |-> TRUE]

\* createStagingBuffer returns a buffer that is none of the buffers in the
\* pool and none of the buffers an active submission was recorded with.
KnownBufs(p) ==
    {p[i].buf : i \in 1..Len(p)} \cup UNION {subs[i].bufs : i \in 1..Len(subs)}
FreshBuf(p) == CHOOSE b \in 1..(MaxSubmits + MaxFaults + 1) : b \notin KnownBufs(p) /\ \A k \in 1..(b - 1) : k \in KnownBufs(p)

\* The first pool entry that is free, whatever its size (0 if there is none).
FirstFit_AnyFree(p, size) ==
    LET free == {i \in 1..Len(p) : ~p[i].inUse}
    IN IF free = {} THEN 0 ELSE CHOOSE i \in free : \A k \in free : i <= k

\* The first pool entry that is free and large enough (0 if there is none).
FirstFit(p, size) ==
    LET fit == {i \in 1..Len(p) : ~p[i].inUse /\ p[i].size >= size}
    IN IF fit = {} THEN 0 ELSE CHOOSE i \in fit : \A k \in fit : i <= k

\* TransferManager::acquireStagingBuffer: the pool after the call and the
\* index returned (indices count from 0, as in the code).
AcquireStagingBuffer(p, size) ==
    IF tmConfig.enable /\ FirstFit(p, size) # 0
    THEN [pool |-> [p EXCEPT ![FirstFit(p, size)].inUse = TRUE],
          idx |-> FirstFit(p, size) - 1, buf |-> p[FirstFit(p, size)].buf]
    ELSE IF tmConfig.enable /\ Len(p) < tmConfig.maxPooled
    THEN [pool |-> Append(p, StagingBuffer(FreshBuf(p), PooledAllocSize(size))),
          idx |-> Len(p), buf |-> FreshBuf(p)]
    ELSE [pool |-> Append(p, StagingBuffer(FreshBuf(p), size)),
          idx |-> Len(p), buf |-> FreshBuf(p)]

\* TransferManager::releaseStagingBuffer
ReleaseStagingBuffer(p, idx) ==
    IF idx < Len(p) THEN [p EXCEPT ![idx + 1].inUse = FALSE] ELSE p

RemoveAt(p, i) == SubSeq(p, 1, i - 1) \o SubSeq(p, i + 1, Len(p))

\* A loop from the tail that does not stop at maxPooledStagingBuffers.
RECURSIVE CleanupLoop_NoStop(_, _)
CleanupLoop_NoStop(p, i) ==
    IF i = 0 THEN p
    ELSE IF ~p[i].inUse THEN CleanupLoop_NoStop(RemoveAt(p, i), i - 1)
    ELSE CleanupLoop_NoStop(p, i - 1)

\* TransferManager::cleanupUnusedStagingBuffers: the loop from the tail, i
\* counting down from pool.size().
RECURSIVE CleanupLoop(_, _)
CleanupLoop(p, i) ==
    IF i = 0 \/ Len(p) <= tmConfig.maxPooled THEN p
    ELSE IF ~p[i].inUse THEN CleanupLoop(RemoveAt(p, i), i - 1)
    ELSE CleanupLoop(p, i - 1)

cleanupUnusedStagingBuffers(p) ==
    IF ~tmConfig.enable THEN p ELSE CleanupLoop(p, Len(p))

\* A submission: the PendingSubmission record (st = "active" while it is in
\* activeSubmissions) together with its token state (fence, completed) and
\* the number of TransferToken copies held outside the record (use_count - 1):
\* the token the call returned, until its holder lets it go.
\* bufs remembers which staging buffers the submission's commands read.
NewSubmission(fence, staging, bufs) ==
    [st |-> "active", fence |-> fence, completed |-> FALSE, extRefs |-> 1,
     staging |-> staging, bufs |-> bufs]

\* What is left of a submission erased from activeSubmissions: its token state
\* has gone with the record, which held the last reference.
ReapedSubmission ==
    [st |-> "reaped", fence |-> 0, completed |-> TRUE, extRefs |-> 0,
     staging |-> <<>>, bufs |-> {}]

IsActive(sb) == sb.st = "active"

\* endOneTimeCommands, the scan: completed is set, or getFenceStatus says so.
Signaled(sb) == sb.completed \/ fences[sb.fence] = "signaled"

\* endOneTimeCommands: signaled && tokenState.use_count() == 1
Reapable(sb) == IsActive(sb) /\ Signaled(sb) /\ sb.extRefs = 0

\* The submissions after the scan: a reaped one leaves activeSubmissions, a
\* signaled one that stays has its completed flag stored.
ScanSubmissions(ss) ==
    [i \in 1..Len(ss) |->
        IF Reapable(ss[i]) THEN ReapedSubmission
        ELSE IF IsActive(ss[i]) THEN [ss[i] EXCEPT !.completed = Signaled(ss[i])]
        ELSE ss[i]]

\* The fences of the reaped submissions, in the order of the scan.
RECURSIVE ReapedFences(_, _)
ReapedFences(ss, i) ==
    IF i > Len(ss) THEN <<>>
    ELSE IF Reapable(ss[i]) THEN <<ss[i].fence>> \o ReapedFences(ss, i + 1)
    ELSE ReapedFences(ss, i + 1)

\* releaseStagingBuffer(idx) for every index of every reaped submission.
RECURSIVE ReleaseAll(_, _)
ReleaseAll(p, idxs) ==
    IF idxs = <<>> THEN p ELSE ReleaseAll(ReleaseStagingBuffer(p, Head(idxs)), Tail(idxs))

RECURSIVE ReapedStaging(_, _)
ReapedStaging(ss, i) ==
    IF i > Len(ss) THEN <<>>
    ELSE IF Reapable(ss[i]) THEN ss[i].staging \o ReapedStaging(ss, i + 1)
    ELSE ReapedStaging(ss, i + 1)

SeqRange(q) == {q[i] : i \in 1..Len(q)}

\* The staging pool p after the scan has released the reaped submissions' buffers.
PoolAfterScan(p) == ReleaseAll(p, ReapedStaging(subs, 1))

\* The device calls of a transfer operation that can fail, in the order the
\* operation makes them ("none": every call succeeds).
Faults ==
    {"none", "createBuffer", "mapMemory", "allocateCommandBuffers", "begin", "end",
     "createFence", "submit"}

\* The fences endOneTimeCommands can take after its scan.
RecycledFences == fencePool \o ReapedFences(subs, 1)

\* TransferManager::endOneTimeCommands on the command buffer just allocated:
\* cmdBuffer.end(), the scan of activeSubmissions (which frees the command
\* buffers of the reaped submissions), the fence taken from the back of
\* fencePool or created, the submit, and the new PendingSubmission.  A call
\* that throws ends the function where it is.
EndOneTimeCommandsWith(staging, bufs, fault) ==
    LET recycled == RecycledFences
        fence == IF recycled # <<>> THEN recycled[Len(recycled)] ELSE Len(fences) + 1
        reset == [f \in 1..Len(fences) |->
                     IF f \in SeqRange(ReapedFences(subs, 1)) THEN "unsignaled" ELSE fences[f]]
    IN IF fault = "end"
       THEN /\ cmdBuffers' = cmdBuffers + 1
            /\ UNCHANGED <<subs, fencePool, fences>>
       ELSE /\ cmdBuffers' = cmdBuffers + 1 - Len(ReapedFences(subs, 1))
            /\ IF fault = "createFence"
               THEN /\ recycled = <<>>
                    /\ fencePool' = recycled
                    /\ fences' = reset
                    /\ subs' = ScanSubmissions(subs)
               ELSE /\ fencePool' = IF recycled # <<>>
                                    THEN SubSeq(recycled, 1, Len(recycled) - 1)
                                    ELSE recycled
                    /\ fences' = IF recycled # <<>> THEN reset ELSE Append(reset, "unsignaled")
                    /\ subs' = IF fault = "submit"
                               THEN ScanSubmissions(subs)
                               ELSE Append(ScanSubmissions(subs),
                                           NewSubmission(fence, staging, bufs))

EndOneTimeCommands(staging, bufs) == EndOneTimeCommandsWith(staging, bufs, "none")

\* The range checks of uploadToBuffer / copyBuffer.
RangeError(a) == a.dstOffset >= a.bufferSize \/ a.size > a.bufferSize - a.dstOffset

\* The last call: which operation, on which token (0: a call on the manager),
\* what the underlying Vulkan call or check said, and how the call ended.
FailedTo(t, op, cause) == [op |-> op, tok |-> t, cause |-> cause, outcome |-> "threw"]
ReturnedTo(t, op, cause) == [op |-> op, tok |-> t, cause |-> cause, outcome |-> "returned"]
Failed(op, cause) == FailedTo(0, op, cause)
Returned(op, cause) == ReturnedTo(0, op, cause)

\* Range checks that let every call through.
RangeChecks_None(a) == "none"
\* The range checks that come first in uploadToBuffer / copyBuffer on an
\* initialized manager: the error thrown, or "none".
RangeChecks(a) == IF RangeError(a) THEN "out_of_range" ELSE "none"

\* acquireStagingBuffer calls createStagingBuffer unless a pooled buffer fits.
CreatesStaging(p, size) == ~(tmConfig.enable /\ FirstFit(p, size) # 0)

\* The device fails at most MaxFaults times.
DeviceFails(fault) ==
    /\ fault # "none" => faults < MaxFaults
    /\ faults' = IF fault = "none" THEN faults ELSE faults + 1

\* TransferManager::uploadToBuffer; fault names the device call that throws.
UploadToBufferWith(a, fault) ==
    /\ tmPhase # "cleaning"
    /\ Len(subs) < MaxSubmits
    /\ DeviceFails(fault)
    /\ IF tmPhase = "dead"
       THEN /\ fault = "none"
            /\ tmLast' = Failed("upload", "not_initialized")
            /\ UNCHANGED <<pool, subs, fencePool, fences, cmdBuffers>>
       ELSE IF RangeChecks(a) # "none"
       THEN /\ fault = "none"
            /\ tmLast' = Failed("upload", RangeChecks(a))
            /\ UNCHANGED <<pool, subs, fencePool, fences, cmdBuffers>>
       ELSE LET acq == AcquireStagingBuffer(pool, a.size)
            IN IF fault = "none"
               THEN /\ EndOneTimeCommands(<<acq.idx>>, {acq.buf})
                    /\ pool' = cleanupUnusedStagingBuffers(PoolAfterScan(acq.pool))
                    /\ tmLast' = Returned("upload", "none")
               ELSE /\ tmLast' = Failed("upload", fault)
                    /\ IF fault = "createBuffer"
                       THEN /\ CreatesStaging(pool, a.size)
                            /\ UNCHANGED <<pool, subs, fencePool, fences, cmdBuffers>>
                       ELSE IF fault \in {"mapMemory", "allocateCommandBuffers"}
                       THEN /\ pool' = acq.pool
                            /\ UNCHANGED <<subs, fencePool, fences, cmdBuffers>>
                       ELSE IF fault = "begin"
                       THEN /\ pool' = acq.pool
                            /\ cmdBuffers' = cmdBuffers + 1
                            /\ UNCHANGED <<subs, fencePool, fences>>
                       ELSE /\ EndOneTimeCommandsWith(<<acq.idx>>, {acq.buf}, fault)
                            /\ pool' = IF fault = "end" THEN acq.pool
                                       ELSE PoolAfterScan(acq.pool)
    /\ UNCHANGED <<tmConfig, stLast, tmPhase>>
    /\ UNCHANGED nonTransferVars

UploadToBuffer(a) == UploadToBufferWith(a, "none")

\* TransferManager::copyBuffer: a submission without staging buffers.
CopyBufferWith(a, fault) ==
    /\ tmPhase # "cleaning"
    /\ Len(subs) < MaxSubmits
    /\ DeviceFails(fault)
    /\ fault \notin {"createBuffer", "mapMemory"}
    /\ IF tmPhase = "dead"
       THEN /\ fault = "none"
            /\ tmLast' = Failed("copy", "not_initialized")
            /\ UNCHANGED <<pool, subs, fencePool, fences, cmdBuffers>>
       ELSE IF RangeChecks(a) # "none"
       THEN /\ fault = "none"
            /\ tmLast' = Failed("copy", RangeChecks(a))
            /\ UNCHANGED <<pool, subs, fencePool, fences, cmdBuffers>>
       ELSE IF fault = "none"
       THEN /\ EndOneTimeCommands(<<>>, {})
            /\ pool' = PoolAfterScan(pool)
            /\ tmLast' = Returned("copy", "none")
       ELSE /\ tmLast' = Failed("copy", fault)
            /\ IF fault = "allocateCommandBuffers"
               THEN UNCHANGED <<pool, subs, fencePool, fences, cmdBuffers>>
               ELSE IF fault = "begin"
               THEN /\ cmdBuffers' = cmdBuffers + 1
                    /\ UNCHANGED <<pool, subs, fencePool, fences>>
               ELSE /\ EndOneTimeCommandsWith(<<>>, {}, fault)
                    /\ pool' = IF fault = "end" THEN pool ELSE PoolAfterScan(pool)
    /\ UNCHANGED <<tmConfig, stLast, tmPhase>>
    /\ UNCHANGED nonTransferVars

CopyBuffer(a) == CopyBufferWith(a, "none")

\* The submissions the GPU has not finished.
Pending == {i \in 1..Len(subs) : IsActive(subs[i]) /\ fences[subs[i].fence] = "unsignaled"}

\* The queue finishes its oldest unfinished submission and signals the fence.
GpuSignal ==
    /\ Pending # {}
    /\ LET i == CHOOSE k \in Pending : \A m \in Pending : k <= m
       IN fences' = [fences EXCEPT ![subs[i].fence] = "signaled"]
    /\ UNCHANGED <<tmConfig, stLast, tmPhase, pool, subs, fencePool, tmLast, cmdBuffers, faults>>
    /\ UNCHANGED nonTransferVars

\* A holder lets its TransferToken go.
TokenDrop(t) ==
    /\ subs[t].extRefs > 0
    /\ subs' = [subs EXCEPT ![t].extRefs = @ - 1]
    /\ UNCHANGED <<tmConfig, stLast, tmPhase, pool, fencePool, fences, tmLast, cmdBuffers, faults>>
    /\ UNCHANGED nonTransferVars

Timeouts == {"finite", "forever"}

\* What vkWaitForFences can return at once.  A wait without timeout on an
\* unsignaled fence does not return until the fence signals; the device can be
\* lost at any time; waiting on a destroyed fence is undefined.
WaitResults(status, timeout) ==
    IF status = "signaled" THEN {"success", "error"}
    ELSE IF status = "unsignaled"
    THEN (IF timeout = "finite" THEN {"timeout", "error"} ELSE {"error"})
    ELSE {"success", "timeout", "error"}

\* TransferToken::wait
TokenWait(t, timeout) ==
    /\ subs[t].extRefs > 0
    /\ IF subs[t].completed
       THEN /\ tmLast' = ReturnedTo(t, "wait", "none")
            /\ UNCHANGED subs
       ELSE \E r \in WaitResults(fences[subs[t].fence], timeout) :
               IF r # "success"
               THEN /\ tmLast' = FailedTo(t, "wait", r)
                    /\ UNCHANGED subs
               ELSE /\ subs' = [subs EXCEPT ![t].completed = TRUE]
                    /\ tmLast' = ReturnedTo(t, "wait", r)
    /\ UNCHANGED <<tmConfig, stLast, tmPhase, pool, fencePool, fences, cmdBuffers, faults>>
    /\ UNCHANGED nonTransferVars

\* What getFenceStatus(fence) == eSuccess can be; undefined on a destroyed fence.
StatusResults(status) ==
    IF status = "signaled" THEN {TRUE}
    ELSE IF status = "unsignaled" THEN {FALSE}
    ELSE {TRUE, FALSE}

\* TransferToken::isComplete
TokenIsComplete(t) ==
    /\ subs[t].extRefs > 0
    /\ IF subs[t].completed
       THEN /\ tmLast' = ReturnedTo(t, "isComplete", "true")
            /\ UNCHANGED subs
       ELSE \E r \in StatusResults(fences[subs[t].fence]) :
               IF r
               THEN /\ subs' = [subs EXCEPT ![t].completed = TRUE]
                    /\ tmLast' = ReturnedTo(t, "isComplete", "true")
               ELSE /\ tmLast' = ReturnedTo(t, "isComplete", "false")
                    /\ UNCHANGED subs
    /\ UNCHANGED <<tmConfig, stLast, tmPhase, pool, fencePool, fences, cmdBuffers, faults>>
    /\ UNCHANGED nonTransferVars

\* TransferManager::cleanup up to the fence wait: the staging buffers are
\* released and the pool cleared, the command pools destroyed and with them
\* the command buffers allocated from them.
CleanupBegin ==
    /\ tmPhase = "live"
    /\ tmPhase' = "cleaning"
    /\ pool' = <<>>
    /\ tmLast' = NoCall
    /\ cmdBuffers' = 0
    /\ UNCHANGED <<tmConfig, stLast, subs, fencePool, fences, faults>>
    /\ UNCHANGED nonTransferVars

\* TransferManager::cleanup from the return of waitForFences: the pooled
\* fences and the fences of the active submissions are destroyed, both lists
\* cleared.  The token states are not written.
CleanupFinish ==
    /\ tmPhase = "cleaning"
    /\ Pending = {}
    /\ tmPhase' = "dead"
    /\ fences' = [f \in 1..Len(fences) |->
                     IF \/ f \in SeqRange(fencePool)
                        \/ \E i \in 1..Len(subs) : IsActive(subs[i]) /\ subs[i].fence = f
                     THEN "destroyed" ELSE fences[f]]
    /\ subs' = [i \in 1..Len(subs) |->
                   IF IsActive(subs[i]) THEN [subs[i] EXCEPT !.st = "cleaned"] ELSE subs[i]]
    /\ fencePool' = <<>>
    /\ UNCHANGED <<tmConfig, stLast, pool, tmLast, cmdBuffers, faults>>
    /\ UNCHANGED nonTransferVars

\* Uploads through the staging pool, the GPU, token holders letting go,
\* cleanup.
TransferNext ==
    \/ \E a \in TransferArgs : UploadToBuffer(a)
    \/ GpuSignal
    \/ \E t \in 1..Len(subs) : TokenDrop(t)
    \/ CleanupBegin
    \/ CleanupFinish

\* Arguments in range, with the offset out of range, and with the size out
\* of range for the offset.
DeviceArgs ==
    {a \in TransferArgs : a.size = 1 \/ (a.size = 2 /\ a.dstOffset = 1)}

\* Uploads and copies on a device whose calls can fail, the GPU, token
\* holders letting go, cleanup.
DeviceNext ==
    \/ \E a \in DeviceArgs, fault \in Faults :
           Len(subs) < MaxDeviceSubmits /\ UploadToBufferWith(a, fault)
    \/ \E a \in DeviceArgs, fault \in Faults :
           Len(subs) < MaxDeviceSubmits /\ CopyBufferWith(a, fault)
    \/ GpuSignal
    \/ \E t \in 1..Len(subs) : TokenDrop(t)
    \/ CleanupBegin
    \/ CleanupFinish

\* Token holders at work: submissions without staging, the GPU, wait and
\* isComplete on the tokens, cleanup.
TokenNext ==
    \/ \E a \in TransferArgs : CopyBuffer(a)
    \/ GpuSignal
    \/ \E t \in 1..Len(subs) :
           \/ TokenDrop(t)
           \/ \E timeout \in Timeouts : TokenWait(t, timeout)
           \/ TokenIsComplete(t)
    \/ CleanupBegin
    \/ CleanupFinish

\* Uploads whose tokens are waited on and polled: one upload size in range,
\* the GPU, wait and isComplete on the tokens, holders letting go.
HeldUploadArgs == {a \in TransferArgs : a.size = 1 /\ a.dstOffset = 0}
HeldUploadNext ==
    \/ \E a \in HeldUploadArgs : UploadToBuffer(a)
    \/ GpuSignal
    \/ \E t \in 1..Len(subs) :
           \/ TokenDrop(t)
           \/ \E timeout \in Timeouts : TokenWait(t, timeout)
           \/ TokenIsComplete(t)

\* The staging pool on its own: acquireStagingBuffer, releaseStagingBuffer
\* and cleanupUnusedStagingBuffers applied in any order to one thread's pool.
MaxStaging == 2
StagingSizes == {1, 2, 4}
StagingConfigs ==
    {[enable |-> e, maxPooled |-> n, minSize |-> 2, maxSize |-> m] :
        e \in BOOLEAN, n \in {MaxPooled}, m \in {0, 1, 3}}

StagingInit == \E cfg \in StagingConfigs : TransferInitWith(cfg)

StagingUnchanged ==
    /\ UNCHANGED <<tmConfig, tmPhase, subs, fencePool, fences, tmLast, cmdBuffers, faults>>
    /\ UNCHANGED nonTransferVars

StagingAcquire(size) ==
    /\ Len(AcquireStagingBuffer(pool, size).pool) <= MaxStaging
    /\ pool' = AcquireStagingBuffer(pool, size).pool
    /\ stLast' = [op |-> "acquire", size |-> size,
                  idx |-> AcquireStagingBuffer(pool, size).idx, len |-> Len(pool)]
    /\ StagingUnchanged

StagingRelease(idx) ==
    /\ pool' = ReleaseStagingBuffer(pool, idx)
    /\ stLast' = [op |-> "release", size |-> 0, idx |-> idx, len |-> Len(pool)]
    /\ StagingUnchanged

StagingCleanup ==
    /\ pool' = cleanupUnusedStagingBuffers(pool)
    /\ stLast' = [op |-> "cleanup", size |-> 0, idx |-> 0, len |-> Len(pool)]
    /\ StagingUnchanged

StagingNext ==
    \/ \E size \in StagingSizes : StagingAcquire(size)
    \/ \E idx \in 0..MaxStaging : StagingRelease(idx)
    \/ StagingCleanup

(***************************************************************************)
(* Frame loop: Renderer::initializeFrameResources, drawFrame of app.cpp    *)
(* with Renderer::recordFrame, and the graphics queue.                     *)
(***************************************************************************)
FramesInFlight == 3
MaxFrames == 6

\* The image counts a swapchain can come with: the count asked for is a
\* minimum, and a recreated swapchain asks for minImageCount + 1.
ImageCounts == {n \in (FramesInFlight - 1)..(FramesInFlight + 1) : n >= 2}

\* FrameResourceDefinition::shaderPrefix and the schemas of its program.
ShaderPrefix == "main"
Schemas == <<"camera", "material">>

NoWrite == [no |-> 0, slot |-> 0, sets |-> {}]

\* The state when the frame loop is set up: the fences are created signaled,
\* the renderer has not built its per-frame resources yet.
FrameInitWith(n) ==
    /\ numImages = n
    /\ maxFramesInFlight = Min2(FramesInFlight, n)
    /\ currentFrame = 0
    /\ frameNo = 0
    /\ inFlightFences = [i \in 0..(Min2(FramesInFlight, n) - 1) |-> "signaled"]
    /\ inFlight = <<>>
    /\ frameResources = <<>>
    /\ descriptorSets = <<>>
    /\ lastWrite = NoWrite

FrameInit == \E n \in ImageCounts : FrameInitWith(n)

\* ResourceManager::getOrAllocateDescriptorSet on the cache entry of the
\* prefix (<<>>: no entry): the cached sets, or one newly allocated set per
\* schema, which the call stores in the cache.
getOrAllocateDescriptorSet(cached, schemaList) ==
    IF cached # <<>> THEN cached ELSE [i \in 1..Len(schemaList) |-> i]

\* RendererResourceService::createPerFrameResources for slot i, with the
\* cache entry as the call finds it.
createPerFrameResources(i, cached) ==
    [cameraBuffer |-> i, lightBuffer |-> i,
     descriptorSets |-> getOrAllocateDescriptorSet(cached, Schemas)]

\* Renderer::initializeFrameResources: the loop over framesInFlight.  The
\* first call fills the descriptor set cache, the later ones find the entry.
InitializeFrameResources ==
    /\ frameResources = <<>>
    /\ frameResources' =
          [i \in 1..FramesInFlight |->
              createPerFrameResources(i,
                  IF i = 1 THEN descriptorSets
                  ELSE getOrAllocateDescriptorSet(descriptorSets, Schemas))]
    /\ descriptorSets' = getOrAllocateDescriptorSet(descriptorSets, Schemas)
    /\ UNCHANGED <<numImages, maxFramesInFlight, currentFrame, frameNo, inFlightFences,
                   inFlight, lastWrite>>
    /\ UNCHANGED nonFrameVars

\* The swapchain images no unfinished frame renders to: an image is handed
\* out again only after it was presented, and it is presented only after the
\* rendering into it has finished.
AvailableImages == (0..(numImages - 1)) \ {inFlight[i].image : i \in 1..Len(inFlight)}

\* device.waitIdle() in recreateSwapchainResources: when it returns the
\* queue has finished every frame and signaled every fence.
FencesAfterIdle == [i \in DOMAIN inFlightFences |-> "signaled"]

\* drawFrame when acquireNextImageKHR reports eErrorOutOfDateKHR: the
\* swapchain is recreated (waitIdle, Renderer::onResize) and the frame is
\* given up; the fence was not reset and currentFrame does not move.
DrawFrameOutOfDate(n) ==
    /\ frameResources # <<>>
    /\ frameNo < MaxFrames
    /\ inFlightFences[currentFrame] = "signaled"
    /\ inFlight' = <<>>
    /\ inFlightFences' = FencesAfterIdle
    /\ numImages' = n
    /\ UNCHANGED <<maxFramesInFlight, currentFrame, frameNo, frameResources, descriptorSets,
                   lastWrite>>
    /\ UNCHANGED nonFrameVars

\* Renderer::recordFrame(cmd, frameIndex) as far as the slot goes: the slot
\* is frameIndex % m_frameResources.size(); the camera and light data are
\* uploaded into the slot's buffers and the pass callback writes and binds
\* the slot's descriptor sets.
RecordedFrame(no, fence, frameIndex) ==
    LET slot == frameIndex % Len(frameResources)
    IN [no |-> no, fence |-> fence, image |-> frameIndex, slot |-> slot,
        sets |-> SeqRange(frameResources[slot + 1].descriptorSets)]

\* drawFrame with an image acquired: the wait on the ring fence of
\* currentFrame, the acquire, the fence reset, recordFrame with the image
\* index, the submit with the fence, the present, and the step of
\* currentFrame.  A present reporting out-of-date recreates the swapchain.
DrawFrame(img, presented, n) ==
    /\ frameResources # <<>>
    /\ frameNo < MaxFrames
    /\ inFlightFences[currentFrame] = "signaled"
    /\ img \in AvailableImages
    /\ LET frame == RecordedFrame(frameNo + 1, currentFrame, img)
       IN /\ lastWrite' = [no |-> frame.no, slot |-> frame.slot, sets |-> frame.sets]
          /\ IF presented
             THEN /\ inFlight' = Append(inFlight, frame)
                  /\ inFlightFences' = [inFlightFences EXCEPT ![currentFrame] = "unsignaled"]
                  /\ numImages' = numImages
             ELSE /\ inFlight' = <<>>
                  /\ inFlightFences' = FencesAfterIdle
                  /\ numImages' = n
    /\ frameNo' = frameNo + 1
    /\ currentFrame' = (currentFrame + 1) % maxFramesInFlight
    /\ UNCHANGED <<maxFramesInFlight, frameResources, descriptorSets>>
    /\ UNCHANGED nonFrameVars

\* The graphics queue finishes its oldest frame and signals the frame's fence.
FrameGpuComplete ==
    /\ inFlight # <<>>
    /\ inFlightFences' = [inFlightFences EXCEPT ![Head(inFlight).fence] = "signaled"]
    /\ inFlight' = Tail(inFlight)
    /\ UNCHANGED <<numImages, maxFramesInFlight, currentFrame, frameNo, frameResources,
                   descriptorSets, lastWrite>>
    /\ UNCHANGED nonFrameVars

FrameNext ==
    \/ InitializeFrameResources
    \/ \E img \in 0..FramesInFlight : DrawFrame(img, TRUE, numImages)
    \/ \E img \in 0..FramesInFlight, n \in ImageCounts : DrawFrame(img, FALSE, n)
    \/ \E n \in ImageCounts : DrawFrameOutOfDate(n)
    \/ FrameGpuComplete

(***************************************************************************)
(* Descriptor set layout cache (DescriptorSetLayoutCache).                 *)
(***************************************************************************)
MaxRegisters == 3

\* DescriptorBindingInfo
Binding(n, b, t, c, st) ==
    [name |-> n, binding |-> b, descriptorType |-> t, descriptorCount |-> c, stageFlags |-> st]

CameraUbo == Binding("uCamera", 0, "uniformBuffer", 1, {"vertex"})
CameraUboRenamed == Binding("camera", 0, "uniformBuffer", 1, {"vertex"})
BaseColor == Binding("baseColorTex", 1, "combinedImageSampler", 1, {"fragment"})
ShadowMap == Binding("shadowMap", 0, "combinedImageSampler", 1, {"fragment"})

\* The binding lists callers pass: the same two bindings in both orders and
\* with a binding renamed, a list of one, and lists in which two bindings
\* declare the same binding index.
BindingLists ==
    {<<CameraUbo, BaseColor>>, <<BaseColor, CameraUboRenamed>>, <<CameraUbo>>,
     <<CameraUbo, ShadowMap>>, <<ShadowMap, CameraUbo>>}

SchemaNames == {<<"s">>, <<"t">>}
SetIndices == {0, 1}

\* std::to_string of an unsigned number, as a sequence of digits.
RECURSIVE Decimal(_)
Decimal(n) == IF n < 10 THEN <<n>> ELSE Decimal(n \div 10) \o <<n % 10>>

\* DescriptorSetLayoutCache::makeNameKey: schemaName + "#" + to_string(setIndex)
makeNameKey(schemaName, setIndex) == schemaName \o <<"#">> \o Decimal(setIndex)

\* std::sort by binding index on a short vector: the insertion sort of the
\* standard libraries, which keeps bindings of equal index in input order.
RECURSIVE InsertByBinding(_, _)
InsertByBinding(sorted, b) ==
    IF sorted = <<>> THEN <<b>>
    ELSE IF sorted[Len(sorted)].binding <= b.binding THEN Append(sorted, b)
    ELSE Append(InsertByBinding(SubSeq(sorted, 1, Len(sorted) - 1), b), sorted[Len(sorted)])

RECURSIVE SortByBinding(_)
SortByBinding(bs) ==
    IF bs = <<>> THEN <<>>
    ELSE InsertByBinding(SortByBinding(SubSeq(bs, 1, Len(bs) - 1)), bs[Len(bs)])

\* The comparison of two bindings used by LayoutKeyEqual and by the name
\* path of registerSetLayout: everything but the name.
SameBinding(a, b) ==
    /\ a.binding = b.binding
    /\ a.descriptorType = b.descriptorType
    /\ a.descriptorCount = b.descriptorCount
    /\ a.stageFlags = b.stageFlags

\* Variant of SameBindings: only the number of bindings is compared.
SameBindings_SizeOnly(as, bs) == Len(as) = Len(bs)

SameBindings(as, bs) ==
    /\ Len(as) = Len(bs)
    /\ \A i \in 1..Len(as) : SameBinding(as[i], bs[i])

LayoutKey(setIndex, canonicalBindings) == [setIndex |-> setIndex, bindings |-> canonicalBindings]

\* DescriptorSetLayoutCache::LayoutKeyEqual
LayoutKeyEqual(a, b) == a.setIndex = b.setIndex /\ SameBindings(a.bindings, b.bindings)

NoLayoutCall == [op |-> "none", outcome |-> "none", schema |-> 0]

\* DescriptorSetLayoutCache::DescriptorSetLayoutCache
LayoutCacheInit ==
    /\ lcAlive = TRUE
    /\ schemas = <<>>
    /\ schemasByKey = {}
    /\ schemasByName = {}
    /\ regLog = {}
    /\ regCalls = 0
    /\ lcLast = NoLayoutCall

\* Variant of FindByName: the name lookup never finds an entry.
FindByName_Never(nameKey) == 0

\* m_schemasByName.find(nameKey) followed by weak_ptr::lock: the schema the
\* name key refers to (0 if there is none).  Every schema of the cache is
\* kept alive by m_schemasByKey, so a lock on an entry succeeds.
FindByName(nameKey) ==
    IF \E e \in schemasByName : e.nameKey = nameKey
    THEN (CHOOSE e \in schemasByName : e.nameKey = nameKey).schema
    ELSE 0

\* Variant of FindByKey: the structural lookup never finds an entry.
FindByKey_Never(key) == 0

\* m_schemasByKey.find(key): the schema stored under an equal key (0: none).
FindByKey(key) ==
    IF \E e \in schemasByKey : LayoutKeyEqual(e.key, key)
    THEN (CHOOSE e \in schemasByKey : LayoutKeyEqual(e.key, key)).schema
    ELSE 0

\* m_schemasByName[nameKey] = schema
SetByName(nameKey, h) ==
    {e \in schemasByName : e.nameKey # nameKey} \cup {[nameKey |-> nameKey, schema |-> h]}

LayoutFailed(op, why) == [op |-> op, outcome |-> why, schema |-> 0]
LayoutReturned(op, h) == [op |-> op, outcome |-> "returned", schema |-> h]

\* What a successful registerSetLayout call adds to the log.
Logged(schemaName, setIndex, bindings, h) ==
    regLog \cup {[name |-> schemaName, setIndex |-> setIndex, input |-> bindings, schema |-> h]}

\* DescriptorSetLayoutCache::registerSetLayout.  created says whether
\* createDescriptorSetLayout succeeds if the call gets that far.
registerSetLayout(schemaName, setIndex, bindings, created) ==
    /\ lcAlive
    /\ regCalls < MaxRegisters
    /\ regCalls' = regCalls + 1
    /\ LET canonicalBindings == SortByBinding(bindings)
           nameKey == makeNameKey(schemaName, setIndex)
           existing == FindByName(nameKey)
           key == LayoutKey(setIndex, canonicalBindings)
           found == FindByKey(key)
           fresh == Len(schemas) + 1
       IN IF existing # 0
          THEN /\ UNCHANGED <<schemas, schemasByKey, schemasByName>>
               /\ IF Len(schemas[existing].bindings) # Len(canonicalBindings)
                  THEN lcLast' = LayoutFailed("register", "size mismatch") /\ UNCHANGED regLog
                  ELSE IF ~SameBindings(schemas[existing].bindings, canonicalBindings)
                  THEN lcLast' = LayoutFailed("register", "structure mismatch") /\ UNCHANGED regLog
                  ELSE /\ lcLast' = LayoutReturned("register", existing)
                       /\ regLog' = Logged(schemaName, setIndex, bindings, existing)
          ELSE IF found # 0
          THEN /\ schemasByName' = SetByName(nameKey, found)
               /\ lcLast' = LayoutReturned("register", found)
               /\ regLog' = Logged(schemaName, setIndex, bindings, found)
               /\ UNCHANGED <<schemas, schemasByKey>>
          ELSE IF ~created
          THEN /\ lcLast' = LayoutFailed("register", "create failed")
               /\ UNCHANGED <<schemas, schemasByKey, schemasByName, regLog>>
          ELSE /\ schemas' = Append(schemas, [name |-> schemaName, setIndex |-> setIndex,
                                              layout |-> "live", bindings |-> canonicalBindings])
               /\ schemasByKey' = schemasByKey \cup {[key |-> key, schema |-> fresh]}
               /\ schemasByName' = SetByName(nameKey, fresh)
               /\ lcLast' = LayoutReturned("register", fresh)
               /\ regLog' = Logged(schemaName, setIndex, bindings, fresh)
    /\ UNCHANGED lcAlive
    /\ UNCHANGED nonLayoutVars

\* DescriptorSetLayoutCache::getSchema
getSchema(schemaName, setIndex) ==
    /\ lcAlive
    /\ lcLast' = LayoutReturned("getSchema", FindByName(makeNameKey(schemaName, setIndex)))
    /\ UNCHANGED <<lcAlive, schemas, schemasByKey, schemasByName, regLog, regCalls>>
    /\ UNCHANGED nonLayoutVars

\* DescriptorSetLayoutCache::cleanup, called by ResourceManager::cleanup just
\* before the cache is deleted: the layouts are destroyed, both maps cleared.
LayoutCacheCleanup ==
    /\ lcAlive
    /\ lcAlive' = FALSE
    /\ schemas' = [h \in 1..Len(schemas) |->
                      IF \E e \in schemasByKey : e.schema = h
                      THEN [schemas[h] EXCEPT !.layout = "destroyed"] ELSE schemas[h]]
    /\ schemasByKey' = {}
    /\ schemasByName' = {}
    /\ lcLast' = NoLayoutCall
    /\ UNCHANGED <<regLog, regCalls>>
    /\ UNCHANGED nonLayoutVars

LayoutNext ==
    \/ \E n \in SchemaNames, i \in SetIndices, bs \in BindingLists, created \in BOOLEAN :
          registerSetLayout(n, i, bs, created)
    \/ \E n \in SchemaNames, i \in SetIndices : getSchema(n, i)
    \/ LayoutCacheCleanup

(***************************************************************************)
(* Shader cache: ResourceManager::loadShader with the reflection of the    *)
(* stages' descriptor sets into the layout cache, and getShaderprogram.    *)
(* One thread loads shaders.                                               *)
(***************************************************************************)
ShaderNames == {<<"main">>}

\* The directories callers name: one directory under two spellings, a second
\* directory, and a directory that does not exist.
ShaderDirs == {<<"d1">>, <<".", "d1">>, <<"d2">>, <<"nodir">>}
ExistingDirs == {normalizeResourcePath(<<"d1">>), normalizeResourcePath(<<"d2">>)}

\* filepath / shaderName
ShaderPath(dir, name) == dir \o name

ShaderIds == {normalizeResourcePath(ShaderPath(dir, name)) : dir \in ShaderDirs, name \in ShaderNames}
ShaderKeys == ShaderNames \cup ShaderIds

\* What reflectSingleShaderModule finds in one stage: for every set index the
\* bindings the stage declares (<<>>: the stage does not use the set).
StageSets(s0, s1) == [i \in SetIndices |-> IF i = 0 THEN s0 ELSE s1]

\* A stage file: absent, or a SPIR-V module with its descriptor sets.
NoFile == [exists |-> FALSE, sets |-> StageSets(<<>>, <<>>)]
StageFile(s0, s1) == [exists |-> TRUE, sets |-> StageSets(s0, s1)]

Camera(count, stage) == Binding("uCamera", 0, "uniformBuffer", count, {stage})
Tex(count, stage) == Binding("baseColorTex", 1, "combinedImageSampler", count, {stage})

\* The shaders a directory can hold under a name: a shader whose stages agree,
\* one whose fragment stage declares the camera block with another count, one
\* with another structure of set 1, and one whose fragment file is absent.
ShaderSources ==
    [lit |-> [vert |-> StageFile(<<Camera(1, "vertex")>>, <<>>),
              frag |-> StageFile(<<Camera(1, "fragment")>>, <<Tex(1, "fragment")>>),
              comp |-> StageFile(<<>>, <<Tex(1, "compute")>>)],
     countMismatch |-> [vert |-> StageFile(<<Camera(1, "vertex")>>, <<>>),
                        frag |-> StageFile(<<Camera(2, "fragment")>>, <<Tex(1, "fragment")>>),
                        comp |-> NoFile],
     unlit |-> [vert |-> StageFile(<<Camera(1, "vertex")>>, <<>>),
                frag |-> StageFile(<<Camera(1, "fragment")>>, <<Tex(2, "fragment")>>),
                comp |-> NoFile],
     noFrag |-> [vert |-> StageFile(<<Camera(1, "vertex")>>, <<>>),
                 frag |-> NoFile,
                 comp |-> NoFile]]

SourceKinds == DOMAIN ShaderSources

\* Variant of MergeBinding: on a hit the stage flags are merged without the
\* comparison of the descriptor counts; the first stage's count is kept.
MergeBinding_FirstCountWins(dstVec, b) ==
    LET hits == {k \in 1..Len(dstVec) :
                    dstVec[k].binding = b.binding /\ dstVec[k].descriptorType = b.descriptorType}
    IN IF hits = {} THEN [threw |-> FALSE, vec |-> Append(dstVec, b)]
       ELSE [threw |-> FALSE,
             vec |-> [k \in 1..Len(dstVec) |->
                         IF k \in hits /\ \A g \in hits : k <= g
                         THEN [dstVec[k] EXCEPT !.stageFlags = @ \cup b.stageFlags]
                         ELSE dstVec[k]]]

\* mergeReflectionResults, one binding b of a stage against the bindings
\* merged so far: find_if on binding and descriptorType, push_back on a miss,
\* the count check and the union of the stage flags on a hit.
MergeBinding(dstVec, b) ==
    LET hits == {k \in 1..Len(dstVec) :
                    dstVec[k].binding = b.binding /\ dstVec[k].descriptorType = b.descriptorType}
    IN IF hits = {} THEN [threw |-> FALSE, vec |-> Append(dstVec, b)]
       ELSE LET k == CHOOSE h \in hits : \A g \in hits : h <= g
            IN IF dstVec[k].descriptorCount # b.descriptorCount
               THEN [threw |-> TRUE, vec |-> dstVec]
               ELSE [threw |-> FALSE,
                     vec |-> [dstVec EXCEPT ![k].stageFlags = @ \cup b.stageFlags]]

\* mergeReflectionResults: the bindings of one stage for one set, in order.
RECURSIVE MergeBindings(_, _)
MergeBindings(dst, bindings) ==
    IF dst.threw \/ bindings = <<>> THEN dst
    ELSE MergeBindings(MergeBinding(dst.vec, Head(bindings)), Tail(bindings))

\* mergeReflectionResults: one set index over the stages, in stage order.
RECURSIVE MergeSet(_, _, _)
MergeSet(dst, perModuleData, setIndex) ==
    IF dst.threw \/ perModuleData = <<>> THEN dst
    ELSE MergeSet(MergeBindings(dst, Head(perModuleData)[setIndex]), Tail(perModuleData), setIndex)

\* ResourceManager::mergeReflectionResults: it throws when a set throws, and
\* otherwise gives every set's merged bindings sorted by binding index.
mergeReflectionResults(perModuleData) ==
    LET merged == [i \in SetIndices |->
                      MergeSet([threw |-> FALSE, vec |-> <<>>], perModuleData, i)]
    IN [threw |-> \E i \in SetIndices : merged[i].threw,
        sets |-> [i \in SetIndices |-> SortByBinding(merged[i].vec)]]

\* The maps of the layout cache as one value, for the calls loadShader makes.
LayoutCacheState == [schemas |-> schemas, byKey |-> schemasByKey, byName |-> schemasByName]

\* registerSetLayout as loadShader calls it: the cache lc after the call, and
\* whether the call threw.
RegisterInCache(lc, schemaName, setIndex, bindings, created) ==
    LET canonicalBindings == SortByBinding(bindings)
        nameKey == makeNameKey(schemaName, setIndex)
        named == {e \in lc.byName : e.nameKey = nameKey}
        key == LayoutKey(setIndex, canonicalBindings)
        keyed == {e \in lc.byKey : LayoutKeyEqual(e.key, key)}
        fresh == Len(lc.schemas) + 1
        WithName(h) == {e \in lc.byName : e.nameKey # nameKey} \cup {[nameKey |-> nameKey, schema |-> h]}
    IN IF named # {}
       THEN [threw |-> ~SameBindings(lc.schemas[(CHOOSE e \in named : TRUE).schema].bindings,
                                     canonicalBindings),
             lc |-> lc]
       ELSE IF keyed # {}
       THEN [threw |-> FALSE, lc |-> [lc EXCEPT !.byName = WithName((CHOOSE e \in keyed : TRUE).schema)]]
       ELSE IF ~created
       THEN [threw |-> TRUE, lc |-> lc]
       ELSE [threw |-> FALSE,
             lc |-> [schemas |-> Append(lc.schemas, [name |-> schemaName, setIndex |-> setIndex,
                                                     layout |-> "live", bindings |-> canonicalBindings]),
                     byKey |-> lc.byKey \cup {[key |-> key, schema |-> fresh]},
                     byName |-> WithName(fresh)]]

\* The orders in which the loop of registerDescriptorLayouts can visit the
\* sets of the unordered_map.
SetOrders == {<<0, 1>>, <<1, 0>>}

\* ResourceManager::registerDescriptorLayouts: without a layout cache nothing
\* is done; a set without bindings is skipped; the first call that throws
\* ends the loop.
RECURSIVE registerDescriptorLayouts(_, _, _, _, _)
registerDescriptorLayouts(reg, finalSets, shaderPrefix, order, created) ==
    IF ~lcAlive \/ reg.threw \/ order = <<>> THEN reg
    ELSE IF finalSets[Head(order)] = <<>>
    THEN registerDescriptorLayouts(reg, finalSets, shaderPrefix, Tail(order), created)
    ELSE registerDescriptorLayouts(
             RegisterInCache(reg.lc, shaderPrefix, Head(order), finalSets[Head(order)], created),
             finalSets, shaderPrefix, Tail(order), created)

NoProgram == <<>>

\* The shaderProgram a load builds: its modules are made from the files of
\* the resource id; the compute module is there if it was asked for.
Program(resourceId, enableComputeShader) == [by |-> resourceId, compute |-> enableComputeShader]

NoShaderCall == [op |-> "none", name |-> <<>>, id |-> <<>>, outcome |-> "none", program |-> NoProgram]
ShaderThrew(name, id, why) ==
    [op |-> "load", name |-> name, id |-> id, outcome |-> why, program |-> NoProgram]
ShaderReturned(name, id, program) ==
    [op |-> "load", name |-> name, id |-> id, outcome |-> "returned", program |-> program]

\* The state of the shader cache with the files as given.
ShaderInitWith(fs) ==
    /\ shaderFs = fs
    /\ loadedShaders = [k \in ShaderKeys |-> NoProgram]
    /\ shLast = NoShaderCall

\* ResourceManager::ResourceManager, over any content of the directories.
ShaderInit == \E fs \in [ExistingDirs \X ShaderNames -> SourceKinds] : ShaderInitWith(fs)

\* loadedShaders.find(key)
FindShader(key) == IF key \in ShaderKeys THEN loadedShaders[key] ELSE NoProgram

\* The stage files loadShader reads.
ShaderFiles(src, enableComputeShader) ==
    <<src.vert, src.frag>> \o (IF enableComputeShader THEN <<src.comp>> ELSE <<>>)

\* reflectDescriptorSetLayouts: one reflection result per stage, in stage order.
PerModuleData(files) == [k \in 1..Len(files) |-> files[k].sets]

\* ResourceManager::loadShader.  order is the order in which the sets are
\* registered, created whether the device creates the layouts asked for.
loadShader(filepath, shaderName, enableComputeShader, order, created) ==
    LET resourceId == normalizeResourcePath(ShaderPath(filepath, shaderName))
        dir == normalizeResourcePath(filepath)
        files == ShaderFiles(ShaderSources[shaderFs[<<dir, shaderName>>]], enableComputeShader)
        finalSets == mergeReflectionResults(PerModuleData(files))
        reg == registerDescriptorLayouts([threw |-> FALSE, lc |-> LayoutCacheState],
                                         finalSets.sets, shaderName, order, created)
        program == Program(resourceId, enableComputeShader)
    IN /\ IF dir \notin ExistingDirs
          THEN /\ shLast' = ShaderThrew(shaderName, resourceId, "no directory")
               /\ UNCHANGED <<loadedShaders, schemas, schemasByKey, schemasByName>>
          ELSE IF FindShader(resourceId) # NoProgram
          THEN /\ shLast' = ShaderReturned(shaderName, resourceId, NoProgram)
               /\ UNCHANGED <<loadedShaders, schemas, schemasByKey, schemasByName>>
          ELSE IF \E k \in 1..Len(files) : ~files[k].exists
          THEN /\ shLast' = ShaderThrew(shaderName, resourceId, "no file")
               /\ UNCHANGED <<loadedShaders, schemas, schemasByKey, schemasByName>>
          ELSE IF finalSets.threw
          THEN /\ shLast' = ShaderThrew(shaderName, resourceId, "count mismatch")
               /\ UNCHANGED <<loadedShaders, schemas, schemasByKey, schemasByName>>
          ELSE /\ schemas' = reg.lc.schemas
               /\ schemasByKey' = reg.lc.byKey
               /\ schemasByName' = reg.lc.byName
               /\ IF reg.threw
                  THEN /\ shLast' = ShaderThrew(shaderName, resourceId, "register failed")
                       /\ UNCHANGED loadedShaders
                  ELSE /\ shLast' = ShaderReturned(shaderName, resourceId, program)
                       /\ loadedShaders' =
                             TryEmplace(TryEmplace(loadedShaders, resourceId, program, NoProgram),
                                        shaderName, program, NoProgram)
       /\ UNCHANGED <<shaderFs, lcAlive, regLog, regCalls, lcLast>>
       /\ UNCHANGED outsideShaderLoad

\* The names getShaderprogram is called with: the keys of the cache and a
\* relative spelling of a resource id.
ProgramNames == ShaderKeys \cup {ShaderPath(<<"d1">>, <<"main">>)}

\* What getShaderprogram(name) returns: the entry of the name as given, else
\* the entry of the normalised name, else an empty program.
ProgramOf(name) ==
    IF FindShader(name) # NoProgram THEN FindShader(name)
    ELSE FindShader(normalizeResourcePath(name))

\* ResourceManager::getShaderprogram
getShaderprogram(name) ==
    /\ shLast' = [op |-> "get", name |-> name, id |-> <<>>, outcome |-> "returned",
                  program |-> ProgramOf(name)]
    /\ UNCHANGED <<shaderFs, loadedShaders>>
    /\ UNCHANGED nonShaderVars

ShaderNext ==
    \/ \E filepath \in ShaderDirs, shaderName \in ShaderNames, enableComputeShader \in BOOLEAN,
          order \in SetOrders, created \in BOOLEAN :
          loadShader(filepath, shaderName, enableComputeShader, order, created)
    \/ \E name \in ProgramNames : getShaderprogram(name)

(***************************************************************************)
(* Descriptor set writer (DescriptorSetWriter): one writer on one set.     *)
(***************************************************************************)
\* The schemas a writer is begun with: a schema of two array bindings, and
\* one in which two bindings declare the same binding index.
WriterSchemas ==
    {<<Binding("lights", 0, "uniformBuffer", 2, {"fragment"}),
       Binding("textures", 1, "combinedImageSampler", 1, {"fragment"})>>,
     <<Binding("lights", 0, "uniformBuffer", 2, {"fragment"}),
       Binding("shadow", 0, "uniformBuffer", 1, {"fragment"})>>}

\* The number of calls made on the writer.
MaxWriterCalls == 3

\* The binding names callers write to: each schema lacks one of them.
BindingNames == {"lights", "textures", "shadow"}

\* Buffer and image infos, and the arrays callers pass.
Infos == {1, 2}
InfoLists == {<<>>, <<3>>, <<2, 1>>, <<1, 2, 3>>}

NoWriterCall == [op |-> "none", outcome |-> "none", issued |-> FALSE]

\* DescriptorSetWriter::begin on a set nothing has been written to.
WriterInitWith(schema) ==
    /\ wSchema = schema
    /\ bufferWrites = <<>>
    /\ imageWrites = <<>>
    /\ deviceSet = [b \in {schema[k].binding : k \in 1..Len(schema)} |-> <<>>]
    /\ flushed = <<>>
    /\ wCalls = 0
    /\ wLast = NoWriterCall

WriterInit == \E schema \in WriterSchemas : WriterInitWith(schema)

\* Variant of findBinding: a name not in the schema gives the first binding.
findBinding_Default(name) ==
    IF \E k \in 1..Len(wSchema) : wSchema[k].name = name
    THEN CHOOSE k \in 1..Len(wSchema) :
             wSchema[k].name = name /\ \A h \in 1..(k - 1) : wSchema[h].name # name
    ELSE 1

\* DescriptorSetSchema::findBinding: the index in m_bindings of the first
\* binding of that name (0: nullptr).
findBinding(name) ==
    IF \E k \in 1..Len(wSchema) : wSchema[k].name = name
    THEN CHOOSE k \in 1..Len(wSchema) :
             wSchema[k].name = name /\ \A h \in 1..(k - 1) : wSchema[h].name # name
    ELSE 0

\* The position in a write list of the entry of a binding index (0: none).
FindWrite(writes, binding) ==
    IF \E k \in 1..Len(writes) : writes[k].binding = binding
    THEN CHOOSE k \in 1..Len(writes) :
             writes[k].binding = binding /\ \A h \in 1..(k - 1) : writes[h].binding # binding
    ELSE 0

\* findOrCreateBufferWrite / findOrCreateImageWrite: the entry found is of
\* another type or maxCount.
Inconsistent(writes, info) ==
    LET k == FindWrite(writes, info.binding)
    IN k # 0 /\ (writes[k].type # info.descriptorType \/ writes[k].maxCount # info.descriptorCount)

\* Variant of KeepLast: the first maxCount entries are kept.
KeepLast_First(infos, maxCount) ==
    IF Len(infos) > maxCount THEN SubSeq(infos, 1, maxCount) ELSE infos

\* writeBuffers / writeImages: infos.erase(begin, end - maxCount) when the
\* list is longer than maxCount.
KeepLast(infos, maxCount) ==
    IF Len(infos) > maxCount THEN SubSeq(infos, Len(infos) - maxCount + 1, Len(infos)) ELSE infos

\* BufferWrite / ImageWrite; given remembers the list as the caller passed it.
QueuedWrite(info, infos, given, isArray) ==
    [binding |-> info.binding, type |-> info.descriptorType, maxCount |-> info.descriptorCount,
     infos |-> infos, given |-> given, array |-> isArray]

\* findOrCreate*Write followed by the assignment of infos: the entry of the
\* binding index is overwritten, or a new entry is pushed at the back.
PutWrite(writes, w) ==
    IF FindWrite(writes, w.binding) # 0
    THEN [writes EXCEPT ![FindWrite(writes, w.binding)] = w]
    ELSE Append(writes, w)

WriterThrew(op, why) == [op |-> op, outcome |-> why, issued |-> FALSE]
WriterReturned(op, issued) == [op |-> op, outcome |-> "returned", issued |-> issued]

\* One more call on the writer.
WriterCalled == wCalls < MaxWriterCalls /\ wCalls' = wCalls + 1

\* The four write calls have one shape: findBindingOrThrow, findOrCreate on
\* the buffer or the image list, and the assignment of the infos.
\* writeBuffer / writeImage pass one info, which replaces the entry's infos.
Write(op, writes, name, infos, given, isArray) ==
    LET k == findBinding(name)
    IN IF k = 0
       THEN [threw |-> TRUE, why |-> "binding not found", writes |-> writes]
       ELSE IF Inconsistent(writes, wSchema[k])
       THEN [threw |-> TRUE, why |-> "inconsistent", writes |-> writes]
       ELSE [threw |-> FALSE, why |-> "",
             writes |-> PutWrite(writes, QueuedWrite(wSchema[k], infos, given, isArray))]

\* DescriptorSetWriter::writeBuffer(bindingName, bufferInfo)
writeBuffer(bindingName, bufferInfo) ==
    LET r == Write("writeBuffer", bufferWrites, bindingName, <<bufferInfo>>, <<bufferInfo>>, FALSE)
    IN /\ WriterCalled
       /\ bufferWrites' = r.writes
       /\ wLast' = IF r.threw THEN WriterThrew("writeBuffer", r.why)
                   ELSE WriterReturned("writeBuffer", FALSE)
       /\ UNCHANGED <<wSchema, imageWrites, deviceSet, flushed>>
       /\ UNCHANGED nonWriterVars

\* DescriptorSetWriter::writeBuffers(bindingName, bufferInfos)
writeBuffers(bindingName, bufferInfos) ==
    LET k == findBinding(bindingName)
        kept == IF k = 0 THEN bufferInfos ELSE KeepLast(bufferInfos, wSchema[k].descriptorCount)
        r == Write("writeBuffers", bufferWrites, bindingName, kept, bufferInfos, TRUE)
    IN /\ WriterCalled
       /\ bufferWrites' = r.writes
       /\ wLast' = IF r.threw THEN WriterThrew("writeBuffers", r.why)
                   ELSE WriterReturned("writeBuffers", FALSE)
       /\ UNCHANGED <<wSchema, imageWrites, deviceSet, flushed>>
       /\ UNCHANGED nonWriterVars

\* DescriptorSetWriter::writeImage(bindingName, imageInfo)
writeImage(bindingName, imageInfo) ==
    LET r == Write("writeImage", imageWrites, bindingName, <<imageInfo>>, <<imageInfo>>, FALSE)
    IN /\ WriterCalled
       /\ imageWrites' = r.writes
       /\ wLast' = IF r.threw THEN WriterThrew("writeImage", r.why)
                   ELSE WriterReturned("writeImage", FALSE)
       /\ UNCHANGED <<wSchema, bufferWrites, deviceSet, flushed>>
       /\ UNCHANGED nonWriterVars

\* DescriptorSetWriter::writeImages(bindingName, imageInfos)
writeImages(bindingName, imageInfos) ==
    LET k == findBinding(bindingName)
        kept == IF k = 0 THEN imageInfos ELSE KeepLast(imageInfos, wSchema[k].descriptorCount)
        r == Write("writeImages", imageWrites, bindingName, kept, imageInfos, TRUE)
    IN /\ WriterCalled
       /\ imageWrites' = r.writes
       /\ wLast' = IF r.threw THEN WriterThrew("writeImages", r.why)
                   ELSE WriterReturned("writeImages", FALSE)
       /\ UNCHANGED <<wSchema, bufferWrites, deviceSet, flushed>>
       /\ UNCHANGED nonWriterVars

\* The VkWriteDescriptorSet update builds from a queued write: count is
\* min(maxCount, infos.size()) and the data are the last count infos.
DescriptorWrite(kind, w) ==
    LET count == Min2(w.maxCount, Len(w.infos))
    IN [kind |-> kind, dstBinding |-> w.binding, descriptorType |-> w.type,
        descriptorCount |-> count,
        infos |-> SubSeq(w.infos, Len(w.infos) - count + 1, Len(w.infos)),
        given |-> w.given, array |-> w.array, declared |-> w.maxCount]

\* update: the writes of one list, entries without infos skipped.
RECURSIVE DescriptorWrites(_, _)
DescriptorWrites(kind, writes) ==
    IF writes = <<>> THEN <<>>
    ELSE IF Head(writes).infos = <<>> THEN DescriptorWrites(kind, Tail(writes))
    ELSE <<DescriptorWrite(kind, Head(writes))>> \o DescriptorWrites(kind, Tail(writes))

\* vkUpdateDescriptorSets, one write: the array elements from 0 on of the
\* binding are replaced, the elements behind them stay.
ApplyWrite(ds, w) ==
    [ds EXCEPT ![w.dstBinding] =
        [k \in 1..Max2(Len(@), w.descriptorCount) |->
            IF k <= w.descriptorCount THEN <<w.kind, w.infos[k]>> ELSE @[k]]]

\* vkUpdateDescriptorSets: the writes are applied in order.
RECURSIVE updateDescriptorSets(_, _)
updateDescriptorSets(ds, writes) ==
    IF writes = <<>> THEN ds
    ELSE updateDescriptorSets(ApplyWrite(ds, Head(writes)), Tail(writes))

\* DescriptorSetWriter::update
update ==
    LET writes == DescriptorWrites("buffer", bufferWrites) \o DescriptorWrites("image", imageWrites)
    IN /\ WriterCalled
       /\ deviceSet' = IF writes # <<>> THEN updateDescriptorSets(deviceSet, writes) ELSE deviceSet
       /\ flushed' = writes
       /\ bufferWrites' = <<>>
       /\ imageWrites' = <<>>
       /\ wLast' = WriterReturned("update", writes # <<>>)
       /\ UNCHANGED wSchema
       /\ UNCHANGED nonWriterVars

WriterNext ==
    \/ \E bindingName \in BindingNames, info \in Infos : writeBuffer(bindingName, info)
    \/ \E bindingName \in BindingNames, infos \in InfoLists : writeBuffers(bindingName, infos)
    \/ \E bindingName \in BindingNames, info \in Infos : writeImage(bindingName, info)
    \/ \E bindingName \in BindingNames, infos \in InfoLists : writeImages(bindingName, infos)
    \/ update

(***************************************************************************)
(* Descriptor pool allocator (DescriptorPoolAllocator).  Its calls run     *)
(* under m_mutex, so each is one step.  A pool holds PoolSets descriptor   *)
(* sets (maxSets, scaled down); the device gives out MaxPools handles.     *)
(***************************************************************************)
MaxPools == 3
PoolSets == 2
NullPool == 0
PoolHandles == 1..MaxPools
\* descriptorSetCount of an allocate call; PoolSets + 1 fits no pool.
SetCounts == 1..(PoolSets + 1)

NoPool == [status |-> "none", left |-> 0]
FreshPool == [status |-> "live", left |-> PoolSets]
NoAllocatorCall == [op |-> "none", outcome |-> "none", acquired |-> <<>>]

AllocatorInit ==
    /\ descriptorPools = [h \in PoolHandles |-> NoPool]
    /\ m_usedPools = <<>>
    /\ m_freePools = <<>>
    /\ m_currentPool = NullPool
    /\ paLast = NoAllocatorCall

\* The members acquirePool works on, as one value.
AllocatorState == [pools |-> descriptorPools, used |-> m_usedPools, free |-> m_freePools]

\* vkCreateDescriptorPool: a handle the device has not given out yet.
createDescriptorPool(pools) ==
    IF \E h \in PoolHandles : pools[h].status = "none"
    THEN CHOOSE h \in PoolHandles :
             /\ pools[h].status = "none"
             /\ \A g \in PoolHandles : pools[g].status = "none" => h <= g
    ELSE NullPool

Acquired(a, handle, fresh) ==
    [pool |-> handle, fresh |-> fresh,
     state |-> [pools |-> IF fresh THEN [a.pools EXCEPT ![handle] = FreshPool] ELSE a.pools,
                used |-> Append(a.used, handle),
                free |-> IF fresh THEN a.free ELSE SubSeq(a.free, 1, Len(a.free) - 1)]]

\* acquirePool which never looks at the free list.
acquirePool_AlwaysCreate(a) ==
    IF createDescriptorPool(a.pools) = NullPool
    THEN [pool |-> NullPool, fresh |-> TRUE, state |-> a]
    ELSE Acquired(a, createDescriptorPool(a.pools), TRUE)

\* acquirePool: the back of m_freePools if there is one, else a new pool.
\* pool = NullPool stands for a device that has no handle left to give.
acquirePool(a) ==
    IF a.free # <<>>
    THEN Acquired(a, a.free[Len(a.free)], FALSE)
    ELSE IF createDescriptorPool(a.pools) = NullPool
         THEN [pool |-> NullPool, fresh |-> TRUE, state |-> a]
         ELSE Acquired(a, createDescriptorPool(a.pools), TRUE)

\* vkAllocateDescriptorSets succeeds when the pool has count sets left.
Fits(pools, handle, count) == pools[handle].left >= count
allocateDescriptorSets(pools, handle, count) ==
    [pools EXCEPT ![handle].left = @ - count]

AllocatorBecomes(a, current, op, outcome, acquired) ==
    /\ descriptorPools' = a.pools
    /\ m_usedPools' = a.used
    /\ m_freePools' = a.free
    /\ m_currentPool' = current
    /\ paLast' = [op |-> op, outcome |-> outcome, acquired |-> acquired]

AcquiredNote(r) == [pool |-> r.pool, fresh |-> r.fresh]

\* allocate(schema, count); valid: the schema and its layout are non-null.
allocate(valid, count) ==
    /\ UNCHANGED nonAllocatorVars
    /\ IF ~valid
       THEN AllocatorBecomes(AllocatorState, m_currentPool, "allocate",
                             "invalid schema or layout", <<>>)
       ELSE LET first == IF m_currentPool = NullPool
                         THEN acquirePool(AllocatorState)
                         ELSE [pool |-> m_currentPool, fresh |-> FALSE, state |-> AllocatorState]
                firstNote == IF m_currentPool = NullPool THEN <<AcquiredNote(first)>> ELSE <<>>
            IN  /\ first.pool # NullPool
                /\ IF Fits(first.state.pools, first.pool, count)
                   THEN AllocatorBecomes(
                            [first.state EXCEPT
                                !.pools = allocateDescriptorSets(@, first.pool, count)],
                            first.pool, "allocate", "returned", firstNote)
                   ELSE \* OutOfPoolMemoryError: another pool, one more try
                        LET second == acquirePool(first.state)
                            notes == Append(firstNote, AcquiredNote(second))
                        IN  /\ second.pool # NullPool
                            /\ IF Fits(second.state.pools, second.pool, count)
                               THEN AllocatorBecomes(
                                        [second.state EXCEPT
                                            !.pools = allocateDescriptorSets(@, second.pool, count)],
                                        second.pool, "allocate", "returned", notes)
                               ELSE AllocatorBecomes(second.state, second.pool, "allocate",
                                                     "OutOfPoolMemoryError", notes)

RECURSIVE ResetAll(_, _)
\* vkResetDescriptorPool on each pool of the list: all its sets are free again.
ResetAll(pools, list) ==
    IF list = <<>> THEN pools
    ELSE ResetAll([pools EXCEPT ![Head(list)].left = PoolSets], Tail(list))

resetPools ==
    /\ UNCHANGED nonAllocatorVars
    /\ AllocatorBecomes([pools |-> ResetAll(descriptorPools, m_usedPools),
                         used |-> <<>>,
                         free |-> m_freePools \o m_usedPools],
                        NullPool, "resetPools", "returned", <<>>)

RECURSIVE DestroyAll(_, _)
\* vkDestroyDescriptorPool on each pool of the list.
DestroyAll(pools, list) ==
    IF list = <<>> THEN pools
    ELSE DestroyAll([pools EXCEPT ![Head(list)] = [status |-> "destroyed", left |-> 0]],
                    Tail(list))

cleanup ==
    /\ UNCHANGED nonAllocatorVars
    /\ AllocatorBecomes([pools |-> DestroyAll(descriptorPools, m_usedPools \o m_freePools),
                         used |-> <<>>,
                         free |-> <<>>],
                        NullPool, "cleanup", "returned", <<>>)

AllocatorNext ==
    \/ \E valid \in BOOLEAN, count \in SetCounts : allocate(valid, count)
    \/ resetPools
    \/ cleanup

(***************************************************************************)
(* Per-thread command pools of the transfer engine.  Each thread that      *)
(* issues a transfer gets a ThreadResources record of its own, with the    *)
(* command pools it creates; the engine keeps every record in              *)
(* m_threadResources for cleanup.  A call is one step.                     *)
(***************************************************************************)
Threads == {"render", "loader"}

\* Submissions a thread has in flight at most.
MaxActive == 2

\* A thread without a ThreadResources record, or whose record has expired.
NoThreadResources == [exists |-> FALSE, active |-> 0]

PoolUse(owner, by, op) == [owner |-> owner, by |-> by, op |-> op]

ThreadsInit ==
    /\ m_ctx = FALSE
    /\ m_threadResources = [th \in Threads |-> NoThreadResources]
    /\ poolUses = {}

InitializeBy(th) ==
    /\ ~m_ctx
    /\ m_ctx' = TRUE
    /\ UNCHANGED <<m_threadResources, poolUses>>
    /\ UNCHANGED nonThreadVars

\* getThreadResources, called by th: the pools its call creates.
getThreadResources(th) ==
    IF m_threadResources[th].exists THEN {} ELSE {PoolUse(th, th, "create")}

\* cleanup, called by th, on the record of thread owner: the uses it makes of
\* the record's command pools.
CleanupUses(th, owner) ==
    IF ~m_threadResources[owner].exists THEN {}
    ELSE {PoolUse(owner, th, "destroy")}
         \cup (IF m_threadResources[owner].active > 0 THEN {PoolUse(owner, th, "free")} ELSE {})

\* A transfer call by th (uploadToBuffer, copyBuffer, ...): beginOneTimeCommands
\* allocates a command buffer from the thread's pool, endOneTimeCommands frees
\* those of the reaped submissions of the thread and records the new one.
TransferBy(th, reaped) ==
    /\ m_ctx
    /\ reaped <= m_threadResources[th].active
    /\ m_threadResources[th].active - reaped < MaxActive
    /\ m_threadResources' =
           [m_threadResources EXCEPT ![th] = [exists |-> TRUE, active |-> @.active - reaped + 1]]
    /\ poolUses' = poolUses \cup getThreadResources(th) \cup {PoolUse(th, th, "allocate")}
                   \cup (IF reaped > 0 THEN {PoolUse(th, th, "free")} ELSE {})
    /\ m_ctx' = m_ctx
    /\ UNCHANGED nonThreadVars

CleanupBy(th) ==
    /\ m_ctx
    /\ poolUses' = poolUses \cup UNION {CleanupUses(th, owner) : owner \in Threads}
    /\ m_threadResources' = [owner \in Threads |-> NoThreadResources]
    /\ m_ctx' = FALSE
    /\ UNCHANGED nonThreadVars

ThreadsNext ==
    \/ \E th \in Threads : InitializeBy(th)
    \/ \E th \in Threads, reaped \in 0..MaxActive : TransferBy(th, reaped)
    \/ \E th \in Threads : CleanupBy(th)

(***************************************************************************)
(* The mutexes of the resource caches.  loadMesh, loadTexture and          *)
(* loadShader are followed part by part: the exists check, the lock_guard  *)
(* block of the lookup, the reading and parsing of the file, for a shader  *)
(* the creation of the shader modules and the reflection, the lock_guard   *)
(* block of the insertion.  Two threads call them on one id per cache;     *)
(* unloadMesh and unloadTexture remove the id again.                       *)
(***************************************************************************)
Caches == {"mesh", "texture", "shader"}
LoaderThreads == {"a", "b"}
LoadFunctions == {"loadMesh", "loadTexture", "loadShader"}
UnloadFunctions == {"unloadMesh", "unloadTexture"}

\* The cache whose mutex a function locks.
CacheOf(fn) ==
    CASE fn \in {"loadMesh", "unloadMesh"} -> "mesh"
      [] fn \in {"loadTexture", "unloadTexture"} -> "texture"
      [] fn = "loadShader" -> "shader"

Idle == [fn |-> "none", part |-> "idle"]

LocksInit ==
    /\ cacheMutex = [c \in Caches |-> "none"]
    /\ loaderAt = [th \in LoaderThreads |-> Idle]
    /\ inCache = [c \in Caches |-> FALSE]

\* The end of a lock_guard block: no thread is inside any more.
Unlock_Never(c, th) == cacheMutex

\* The end of the lock_guard block of thread th on the mutex of cache c.
Unlock(c, th) == [cacheMutex EXCEPT ![c] = "none"]

\* The start of a lock_guard block: the thread waits until the mutex is free.
Lock(c, th) == [cacheMutex EXCEPT ![c] = th]

MovesTo(th, fn, part) == loaderAt' = [loaderAt EXCEPT ![th] = [fn |-> fn, part |-> part]]

\* A thread calls a loader: std::filesystem::exists on the path.
LoadCall(th, fn) ==
    /\ loaderAt[th] = Idle
    /\ MovesTo(th, fn, "exists")
    /\ UNCHANGED <<cacheMutex, inCache>>
    /\ UNCHANGED nonLockVars

\* The path is missing: the loader throws.  Otherwise the id is computed and
\* the first lock_guard block is entered.
EnterLookup(th, exists) ==
    LET fn == loaderAt[th].fn
    IN  /\ loaderAt[th].part = "exists"
        /\ IF exists
           THEN /\ cacheMutex[CacheOf(fn)] = "none"
                /\ cacheMutex' = Lock(CacheOf(fn), th)
                /\ MovesTo(th, fn, "lookup")
           ELSE /\ loaderAt' = [loaderAt EXCEPT ![th] = Idle]
                /\ cacheMutex' = cacheMutex
        /\ UNCHANGED inCache
        /\ UNCHANGED nonLockVars

\* The lookup: an id that is loaded is returned inside the block; otherwise
\* the block ends and the file is read and parsed (ModelLoader::loadFromFile,
\* TextureLoader::loadFromFile, the ifstream reads of the stage files).
LeaveLookup(th) ==
    LET fn == loaderAt[th].fn
    IN  /\ loaderAt[th].part = "lookup"
        /\ cacheMutex' = Unlock(CacheOf(fn), th)
        /\ IF inCache[CacheOf(fn)]
           THEN loaderAt' = [loaderAt EXCEPT ![th] = Idle]
           ELSE MovesTo(th, fn, "readFile")
        /\ UNCHANGED inCache
        /\ UNCHANGED nonLockVars

\* The file has been read.  A mesh or texture that is empty or invalid, or a
\* stage file that cannot be read, throws; a shader goes on to create its
\* ShaderModules on the device; a mesh or texture enters the second block.
FileRead(th, ok) ==
    LET fn == loaderAt[th].fn
    IN  /\ loaderAt[th].part = "readFile"
        /\ IF ~ok
           THEN /\ loaderAt' = [loaderAt EXCEPT ![th] = Idle]
                /\ cacheMutex' = cacheMutex
           ELSE IF fn = "loadShader"
                THEN /\ MovesTo(th, fn, "createModules")
                     /\ cacheMutex' = cacheMutex
                ELSE /\ cacheMutex[CacheOf(fn)] = "none"
                     /\ cacheMutex' = Lock(CacheOf(fn), th)
                     /\ MovesTo(th, fn, "insert")
        /\ UNCHANGED inCache
        /\ UNCHANGED nonLockVars

\* loadShader: the modules exist, reflectDescriptorSetLayouts registers the
\* set layouts with the layout cache.
ModulesCreated(th) ==
    /\ loaderAt[th].part = "createModules"
    /\ MovesTo(th, loaderAt[th].fn, "reflect")
    /\ UNCHANGED <<cacheMutex, inCache>>
    /\ UNCHANGED nonLockVars

\* loadShader: the reflection is done (or has thrown), the second block is
\* entered.
Reflected(th, ok) ==
    LET fn == loaderAt[th].fn
    IN  /\ loaderAt[th].part = "reflect"
        /\ IF ok
           THEN /\ cacheMutex[CacheOf(fn)] = "none"
                /\ cacheMutex' = Lock(CacheOf(fn), th)
                /\ MovesTo(th, fn, "insert")
           ELSE /\ loaderAt' = [loaderAt EXCEPT ![th] = Idle]
                /\ cacheMutex' = cacheMutex
        /\ UNCHANGED inCache
        /\ UNCHANGED nonLockVars

\* try_emplace in the second block; the block ends and the loader returns.
LeaveInsert(th) ==
    LET fn == loaderAt[th].fn
    IN  /\ loaderAt[th].part = "insert"
        /\ inCache' = [inCache EXCEPT ![CacheOf(fn)] = TRUE]
        /\ cacheMutex' = Unlock(CacheOf(fn), th)
        /\ loaderAt' = [loaderAt EXCEPT ![th] = Idle]
        /\ UNCHANGED nonLockVars

\* unloadMesh / unloadTexture: the whole body is one lock_guard block.
UnloadCall(th, fn) ==
    /\ loaderAt[th] = Idle
    /\ cacheMutex[CacheOf(fn)] = "none"
    /\ cacheMutex' = Lock(CacheOf(fn), th)
    /\ MovesTo(th, fn, "erase")
    /\ UNCHANGED inCache
    /\ UNCHANGED nonLockVars

UnloadReturn(th) ==
    LET fn == loaderAt[th].fn
    IN  /\ loaderAt[th].part = "erase"
        /\ inCache' = [inCache EXCEPT ![CacheOf(fn)] = FALSE]
        /\ cacheMutex' = Unlock(CacheOf(fn), th)
        /\ loaderAt' = [loaderAt EXCEPT ![th] = Idle]
        /\ UNCHANGED nonLockVars

LocksNext ==
    \E th \in LoaderThreads :
        \/ \E fn \in LoadFunctions : LoadCall(th, fn)
        \/ \E exists \in BOOLEAN : EnterLookup(th, exists)
        \/ LeaveLookup(th)
        \/ \E ok \in BOOLEAN : FileRead(th, ok)
        \/ ModulesCreated(th)
        \/ \E ok \in BOOLEAN : Reflected(th, ok)
        \/ LeaveInsert(th)
        \/ \E fn \in UnloadFunctions : UnloadCall(th, fn)
        \/ UnloadReturn(th)

(***************************************************************************)
(* Resize.  The render thread of app.cpp submits frames and, when the      *)
(* swapchain is out of date, runs recreateSwapchainResources, which calls  *)
(* Renderer::onResize.  The renderer has one pass, which draws to the      *)
(* swapchain; a format stands for a surface format with its colour space.  *)
(***************************************************************************)
MaxGpuFrames == 2
MaxResizes == 2

Formats == {"B8G8R8A8Unorm", "R8G8B8A8Unorm", "B8G8R8A8Srgb"}

\* SwapchainConfig::preferredFormat, which app.cpp leaves at its default.
PreferredFormat == "B8G8R8A8Unorm"

\* What querySwapchainSupport can report as the surface's formats.
SurfaceFormatLists == {<<f>> : f \in Formats} \cup {<<f, g>> : f, g \in Formats}

\* createSwapchain: the preferred format if the surface has it, else the first.
createSwapchain(formats) ==
    IF \E i \in 1..Len(formats) : formats[i] = PreferredFormat
    THEN PreferredFormat
    ELSE formats[1]

chooseSwapSurfaceFormat(formats) ==
    IF Len(formats) = 1 /\ formats[1] = "Undefined" THEN "B8G8R8A8Unorm"
    ELSE IF \E i \in 1..Len(formats) : formats[i] = "B8G8R8A8Unorm" THEN "B8G8R8A8Unorm"
    ELSE formats[1]

\* The main pass of the renderer's configuration with its colour format.
MainPass(format) == [shaderPrefix |-> "car", colorFormats |-> <<format>>, depthFormat |-> "None"]

makePipelineKey(shaderPrefix, colorFormats, depthFormat) == <<shaderPrefix, colorFormats, depthFormat>>

\* GraphicsPipelineBuilder::build after setRenderTargets(pass): the pipeline
\* is created for the attachment formats of the pass definition.
BuildPipeline(pass) == [shaderPrefix |-> pass.shaderPrefix, colorFormats |-> pass.colorFormats]

\* The cache and the pipeline returned.
getOrCreateDefaultPipeline(cache, pass) ==
    LET key == makePipelineKey(pass.shaderPrefix, pass.colorFormats, pass.depthFormat)
    IN  IF key \in DOMAIN cache
        THEN [cache |-> cache, pipeline |-> cache[key]]
        ELSE [cache |-> [k \in DOMAIN cache \cup {key} |->
                            IF k = key THEN BuildPipeline(pass) ELSE cache[k]],
              pipeline |-> BuildPipeline(pass)]

\* initializePassRuntime on the renderer's passes: the cache and the runtimes.
initializePassRuntime(cache, pass) ==
    LET got == getOrCreateDefaultPipeline(cache, pass)
    IN  [cache |-> got.cache, runtimes |-> <<[definition |-> pass, pipeline |-> got.pipeline]>>]

DeviceCall(call, by, busy) == [call |-> call, by |-> by, busy |-> busy]

\* device.waitIdle() that returns at once.
WaitIdle_NoWait(busy) == busy

\* device.waitIdle(): the frames unfinished when it returns.
WaitIdle(busy) == 0

\* After the set-up of app.cpp and the Renderer's constructor on a surface
\* with the given formats.
ResizeInitWith(formats) ==
    LET format == createSwapchain(formats)
        made == initializePassRuntime(<<>>, MainPass(format))
    IN  /\ m_swapchainImageFormat = format
        /\ passFormat = format
        /\ m_pipelineCache = made.cache
        /\ m_passRuntimes = made.runtimes
        /\ gpuFrames = 0
        /\ deviceCalls = <<>>
        /\ resizeCount = 0

ResizeInit == \E formats \in SurfaceFormatLists : ResizeInitWith(formats)

\* drawFrame submits a frame.
SubmitFrame ==
    /\ gpuFrames < MaxGpuFrames
    /\ gpuFrames' = gpuFrames + 1
    /\ UNCHANGED <<m_swapchainImageFormat, passFormat, m_pipelineCache, m_passRuntimes, deviceCalls,
                   resizeCount>>
    /\ UNCHANGED nonResizeVars

\* The device finishes its oldest frame.
FrameFinished ==
    /\ gpuFrames > 0
    /\ gpuFrames' = gpuFrames - 1
    /\ UNCHANGED <<m_swapchainImageFormat, passFormat, m_pipelineCache, m_passRuntimes, deviceCalls,
                   resizeCount>>
    /\ UNCHANGED nonResizeVars

\* Renderer::onResize with VkContext::recreateSwapchain: the device calls it
\* makes with busy frames unfinished, the new format, the pass runtimes.
onResize(formats, busy) ==
    LET made == initializePassRuntime(m_pipelineCache, MainPass(passFormat))
    IN  [calls |-> <<DeviceCall("destroySwapchainKHR", "cleanupSwapchain", busy),
                     DeviceCall("createSwapchainKHR", "createSwapchainInternal", busy)>>,
         format |-> chooseSwapSurfaceFormat(formats),
         cache |-> made.cache,
         runtimes |-> made.runtimes]

\* recreateSwapchainResources of app.cpp: waitIdle, nothing more for a window
\* of size zero, else onResize.
recreateSwapchainResources(formats, zeroSize) ==
    LET busy == WaitIdle(gpuFrames)
        waited == <<DeviceCall("waitIdle", "recreateSwapchainResources", gpuFrames)>>
        resized == onResize(formats, busy)
    IN  /\ resizeCount < MaxResizes
        /\ resizeCount' = resizeCount + 1
        /\ gpuFrames' = busy
        /\ passFormat' = passFormat
        /\ IF zeroSize
           THEN /\ deviceCalls' = waited
                /\ UNCHANGED <<m_swapchainImageFormat, m_pipelineCache, m_passRuntimes>>
           ELSE /\ deviceCalls' = waited \o resized.calls
                /\ m_swapchainImageFormat' = resized.format
                /\ m_pipelineCache' = resized.cache
                /\ m_passRuntimes' = resized.runtimes
        /\ UNCHANGED nonResizeVars

ResizeNext ==
    \/ SubmitFrame
    \/ FrameFinished
    \/ \E formats \in SurfaceFormatLists \cup {<<"Undefined">>}, zeroSize \in BOOLEAN :
           recreateSwapchainResources(formats, zeroSize)

(***************************************************************************)
(* ResourceManager::getOrAllocateDescriptorSet called by several threads.  *)
(* The call is followed part by part: the lookup under m_descriptorSetMutex *)
(* the allocation outside the lock, the store under the lock.              *)
(***************************************************************************)
MaxSetCalls == 3

SetCallers == {"a", "b"}
Prefixes == {"car", "sky"}

NoSetCall == [part |-> "idle", prefix |-> "none", sets |-> <<>>]

SetCacheInit ==
    /\ setsByPrefix = [prefix \in Prefixes |-> <<>>]
    /\ setCaller = [th \in SetCallers |-> NoSetCall]
    /\ setsAllocated = 0
    /\ allocations = [prefix \in Prefixes |-> 0]
    /\ setsReturned = [prefix \in Prefixes |-> {}]

\* The call returns sets to its caller.
SetsReturnedTo(th, prefix, sets) ==
    /\ setsReturned' = [setsReturned EXCEPT ![prefix] = @ \cup {sets}]
    /\ setCaller' = [setCaller EXCEPT ![th] = NoSetCall]

\* The first block under the lock: a prefix that has an entry returns the
\* stored sets; otherwise the call goes on, and throws if it was given no
\* schemas.
SetLookup(th, prefix, schemaList) ==
    /\ setCaller[th] = NoSetCall
    /\ IF setsByPrefix[prefix] # <<>>
       THEN SetsReturnedTo(th, prefix, setsByPrefix[prefix])
       ELSE IF schemaList = <<>>
       THEN UNCHANGED <<setCaller, setsReturned>>
       ELSE /\ setCaller' = [setCaller EXCEPT ![th] =
                                [part |-> "allocate", prefix |-> prefix, sets |-> schemaList]]
            /\ UNCHANGED setsReturned
    /\ UNCHANGED <<setsByPrefix, setsAllocated, allocations>>
    /\ UNCHANGED nonSetCacheVars

\* m_poolAllocator->allocate(schema) for each schema: new descriptor sets.
AllocatedSets(first, schemaList) == [i \in 1..Len(schemaList) |-> first + i]

\* The loop of allocate calls, outside the lock.
SetAllocate(th) ==
    /\ setCaller[th].part = "allocate"
    /\ allocations[setCaller[th].prefix] < MaxSetCalls
    /\ setCaller' = [setCaller EXCEPT ![th].part = "store",
                                      ![th].sets = AllocatedSets(setsAllocated, @)]
    /\ setsAllocated' = setsAllocated + Len(setCaller[th].sets)
    /\ allocations' = [allocations EXCEPT ![setCaller[th].prefix] = @ + 1]
    /\ UNCHANGED <<setsByPrefix, setsReturned>>
    /\ UNCHANGED nonSetCacheVars

\* The second block under the lock: m_descriptorSets[ShaderPrefix] =
\* allocatedSets, and the return of allocatedSets.
SetStore(th) ==
    /\ setCaller[th].part = "store"
    /\ setsByPrefix' = [setsByPrefix EXCEPT ![setCaller[th].prefix] = setCaller[th].sets]
    /\ SetsReturnedTo(th, setCaller[th].prefix, setCaller[th].sets)
    /\ UNCHANGED <<setsAllocated, allocations>>
    /\ UNCHANGED nonSetCacheVars

SetCacheNext ==
    \E th \in SetCallers :
        \/ \E prefix \in Prefixes, schemaList \in {<<>>, Schemas} : SetLookup(th, prefix, schemaList)
        \/ SetAllocate(th)
        \/ SetStore(th)

(***************************************************************************)
(* asset::Scene: the nodes and their ids.                                  *)
(***************************************************************************)
MaxNodes == 4

NodeTypes == {"Camera", "Light", "Renderable"}

\* m_nextId++ that leaves the counter as it was.
NextId_Same(id) == id

\* m_nextId++.  The counter is a uint32_t that starts at 1: it wraps to 0
\* with the 2^32-th node, far beyond the MaxNodes nodes followed here.
NextId(id) == id + 1

SceneInit ==
    /\ m_nextId = 1
    /\ m_activeCameraId = 0
    /\ m_nodes = <<>>

\* Scene::createNode: the node takes m_nextId, which is then incremented,
\* and goes to the back of m_nodes.
createNode(type) ==
    /\ Len(m_nodes) < MaxNodes
    /\ m_nodes' = Append(m_nodes, [id |-> m_nextId, type |-> type])
    /\ m_nextId' = NextId(m_nextId)

\* Scene::createCameraNode: the first camera becomes the active one.
createCameraNode ==
    /\ createNode("Camera")
    /\ m_activeCameraId' = IF m_activeCameraId = 0 THEN m_nextId ELSE m_activeCameraId
    /\ UNCHANGED nonSceneVars

createLightNode ==
    /\ createNode("Light")
    /\ UNCHANGED m_activeCameraId
    /\ UNCHANGED nonSceneVars

createRenderableNode ==
    /\ createNode("Renderable")
    /\ UNCHANGED m_activeCameraId
    /\ UNCHANGED nonSceneVars

\* Scene::getNode: the first node with the id, 0 for nullptr.
getNode(id) ==
    IF \E i \in 1..Len(m_nodes) : m_nodes[i].id = id
    THEN CHOOSE i \in 1..Len(m_nodes) :
             /\ m_nodes[i].id = id
             /\ \A j \in 1..(i - 1) : m_nodes[j].id # id
    ELSE 0

\* Scene::setActiveCamera: only a node that exists and has a camera.
setActiveCamera(id) ==
    /\ m_activeCameraId' = IF getNode(id) # 0 /\ m_nodes[getNode(id)].type = "Camera"
                           THEN id ELSE m_activeCameraId
    /\ UNCHANGED <<m_nextId, m_nodes>>
    /\ UNCHANGED nonSceneVars

SceneNext ==
    \/ createCameraNode
    \/ createLightNode
    \/ createRenderableNode
    \/ \E id \in 0..(MaxNodes + 1) : setActiveCamera(id)

(***************************************************************************)
(* VkResourceAllocator and the wrappers ManagedBuffer, ManagedImage and    *)
(* ManagedSampler.  A device object is a handle into deviceObjects, which  *)
(* counts the destroy calls made on it; a wrapper is a C++ object in one   *)
(* of WrapperSlots, alive between its construction and its destructor.     *)
(***************************************************************************)
MaxObjects == 3

WrapperSlots == 1..3
BufferSizes == {0, 1, 2}
VmaResults == {"VK_SUCCESS", "VK_ERROR_OUT_OF_DEVICE_MEMORY"}

NoWrapper == [alive |-> FALSE, kind |-> "none", m_owner |-> FALSE, m_handle |-> 0,
              m_view |-> 0, m_allocation |-> FALSE]
NoResourceCall == [op |-> "none", size |-> 0, outcome |-> "none"]
ResourceCall(op, size, outcome) == [op |-> op, size |-> size, outcome |-> outcome]

\* A default-constructed allocator, no wrapper yet.
ResourcesInit ==
    /\ m_allocator = "null"
    /\ raCtx = FALSE
    /\ deviceObjects = <<>>
    /\ wrappers = [s \in WrapperSlots |-> NoWrapper]
    /\ raLast = NoResourceCall

\* After VkResourceAllocator::initialize.
ManagedInit ==
    /\ m_allocator = "live"
    /\ raCtx = TRUE
    /\ deviceObjects = <<>>
    /\ wrappers = [s \in WrapperSlots |-> NoWrapper]
    /\ raLast = NoResourceCall

\* VkResourceAllocator::initialize: m_ctx is set first; an allocator that
\* exists is kept; vmaCreateAllocator may fail, which throws.
ResourceAllocatorInitialize(result) ==
    /\ raCtx' = TRUE
    /\ m_allocator' = IF m_allocator = "live" \/ result = "VK_SUCCESS" THEN "live" ELSE "null"
    /\ raLast' = ResourceCall("initialize", 0,
                     IF m_allocator = "live" \/ result = "VK_SUCCESS" THEN "returned" ELSE "threw")
    /\ UNCHANGED <<deviceObjects, wrappers>>
    /\ UNCHANGED nonResourceVars

\* VkResourceAllocator::cleanup.
ResourceAllocatorCleanup ==
    /\ m_allocator' = "null"
    /\ raLast' = ResourceCall("cleanup", 0, "returned")
    /\ UNCHANGED <<raCtx, deviceObjects, wrappers>>
    /\ UNCHANGED nonResourceVars

\* vmaCreateBuffer of the VMA library: a buffer of size 0 is refused with
\* VK_ERROR_INITIALIZATION_FAILED before the device is asked; otherwise the
\* result is the device's.
vmaCreateBuffer(size, device) ==
    IF size = 0 THEN "VK_ERROR_INITIALIZATION_FAILED" ELSE device

\* createBuffer that never throws.
CreateBufferResult_Unchecked(allocator, size, device) == "created"

\* VkResourceAllocator::createBuffer up to its return statement.
CreateBufferResult(allocator, size, device) ==
    IF allocator = "null" THEN "Allocator not initialized"
    ELSE IF vmaCreateBuffer(size, device) # "VK_SUCCESS" THEN "failed to create buffer"
    ELSE "created"

NewObject(kind) == [kind |-> kind, destroyed |-> 0]
DestroyObject(objs, h) == [objs EXCEPT ![h].destroyed = @ + 1]

\* VkResourceAllocator::createBuffer, its result constructed in slot s.
createBuffer(s, size, device) ==
    /\ ~wrappers[s].alive
    /\ Len(deviceObjects) < MaxObjects
    /\ LET result == CreateBufferResult(m_allocator, size, device) IN
           /\ raLast' = ResourceCall("createBuffer", size,
                            IF result = "created" THEN "returned" ELSE "threw")
           /\ IF result = "created"
              THEN /\ deviceObjects' = Append(deviceObjects, NewObject("buffer"))
                   /\ wrappers' = [wrappers EXCEPT ![s] =
                          [alive |-> TRUE, kind |-> "buffer", m_owner |-> TRUE,
                           m_handle |-> Len(deviceObjects) + 1, m_view |-> 0,
                           m_allocation |-> TRUE]]
              ELSE UNCHANGED <<deviceObjects, wrappers>>
    /\ UNCHANGED <<m_allocator, raCtx>>
    /\ UNCHANGED nonResourceVars

\* VkResourceAllocator::createImage on a live allocator: the image and its
\* default view.
createImage(s) ==
    /\ ~wrappers[s].alive
    /\ m_allocator = "live"
    /\ Len(deviceObjects) + 1 < MaxObjects
    /\ deviceObjects' = deviceObjects \o <<NewObject("image"), NewObject("view")>>
    /\ wrappers' = [wrappers EXCEPT ![s] =
           [alive |-> TRUE, kind |-> "image", m_owner |-> TRUE,
            m_handle |-> Len(deviceObjects) + 1, m_view |-> Len(deviceObjects) + 2,
            m_allocation |-> TRUE]]
    /\ raLast' = ResourceCall("createImage", 0, "returned")
    /\ UNCHANGED <<m_allocator, raCtx>>
    /\ UNCHANGED nonResourceVars

\* VkResourceAllocator::createImageView: a new view of the image of the
\* wrapper in slot from; the result holds the image without its allocation.
createImageView(s, from) ==
    /\ ~wrappers[s].alive
    /\ raCtx
    /\ wrappers[from].alive /\ wrappers[from].kind = "image" /\ wrappers[from].m_handle # 0
    /\ Len(deviceObjects) < MaxObjects
    /\ deviceObjects' = Append(deviceObjects, NewObject("view"))
    /\ wrappers' = [wrappers EXCEPT ![s] =
           [alive |-> TRUE, kind |-> "image", m_owner |-> TRUE,
            m_handle |-> wrappers[from].m_handle, m_view |-> Len(deviceObjects) + 1,
            m_allocation |-> FALSE]]
    /\ raLast' = ResourceCall("createImageView", 0, "returned")
    /\ UNCHANGED <<m_allocator, raCtx>>
    /\ UNCHANGED nonResourceVars

\* VkResourceAllocator::createSampler.
createSampler(s) ==
    /\ ~wrappers[s].alive
    /\ raCtx
    /\ Len(deviceObjects) < MaxObjects
    /\ deviceObjects' = Append(deviceObjects, NewObject("sampler"))
    /\ wrappers' = [wrappers EXCEPT ![s] =
           [alive |-> TRUE, kind |-> "sampler", m_owner |-> TRUE,
            m_handle |-> Len(deviceObjects) + 1, m_view |-> 0, m_allocation |-> FALSE]]
    /\ raLast' = ResourceCall("createSampler", 0, "returned")
    /\ UNCHANGED <<m_allocator, raCtx>>
    /\ UNCHANGED nonResourceVars

\* destroyBuffer and destroyImage act on a live allocator and a handle that
\* is not null; destroyImageView and destroySampler need m_ctx.
destroyBuffer(objs, buffer) ==
    IF m_allocator = "live" /\ buffer # 0 THEN DestroyObject(objs, buffer) ELSE objs
destroyImage(objs, image) ==
    IF m_allocator = "live" /\ image # 0 THEN DestroyObject(objs, image) ELSE objs
destroyImageView(objs, view) ==
    IF raCtx /\ view # 0 THEN DestroyObject(objs, view) ELSE objs
destroySampler(objs, sampler) ==
    IF raCtx /\ sampler # 0 THEN DestroyObject(objs, sampler) ELSE objs

Released(w, objs) == [w |-> w, objs |-> objs]

\* ManagedBuffer::release.
ReleaseBuffer(w, objs) ==
    IF w.m_owner /\ w.m_handle # 0
    THEN Released([w EXCEPT !.m_owner = FALSE, !.m_handle = 0, !.m_allocation = FALSE],
                  destroyBuffer(objs, w.m_handle))
    ELSE Released(w, objs)

\* ManagedImage::release: the view, then the image if this wrapper holds
\* its allocation.
ReleaseImage(w, objs) ==
    IF w.m_owner
    THEN LET hasImage == w.m_allocation /\ w.m_handle # 0
             afterView == IF w.m_view # 0 THEN destroyImageView(objs, w.m_view) ELSE objs
         IN  Released([w EXCEPT !.m_owner = FALSE, !.m_view = 0,
                                !.m_handle = IF hasImage THEN 0 ELSE @,
                                !.m_allocation = IF hasImage THEN FALSE ELSE @],
                      IF hasImage THEN destroyImage(afterView, w.m_handle) ELSE afterView)
    ELSE Released(w, objs)

\* ManagedSampler::release.
ReleaseSampler(w, objs) ==
    IF w.m_owner /\ w.m_handle # 0
    THEN Released([w EXCEPT !.m_owner = FALSE, !.m_handle = 0],
                  destroySampler(objs, w.m_handle))
    ELSE Released(w, objs)

ReleaseOf(w, objs) ==
    CASE w.kind = "buffer" -> ReleaseBuffer(w, objs)
      [] w.kind = "image" -> ReleaseImage(w, objs)
      [] w.kind = "sampler" -> ReleaseSampler(w, objs)

\* A move that leaves the source as it was.
MovedFrom_Kept(w) == w

\* What the move constructor and the move assignment leave in the source:
\* no owner, null handles.
MovedFrom(w) ==
    [w EXCEPT !.m_owner = FALSE, !.m_handle = 0, !.m_view = 0, !.m_allocation = FALSE]

\* release() called on the wrapper in slot s.
release(s) ==
    /\ wrappers[s].alive
    /\ LET r == ReleaseOf(wrappers[s], deviceObjects) IN
           /\ wrappers' = [wrappers EXCEPT ![s] = r.w]
           /\ deviceObjects' = r.objs
           /\ raLast' = ResourceCall("release", 0,
                            IF r.objs # deviceObjects THEN "destroyed" ELSE "nothing")
    /\ UNCHANGED <<m_allocator, raCtx>>
    /\ UNCHANGED nonResourceVars

\* The destructor of the wrapper in slot s: release(), and the object ends.
Destructor(s) ==
    /\ wrappers[s].alive
    /\ LET r == ReleaseOf(wrappers[s], deviceObjects) IN
           /\ wrappers' = [wrappers EXCEPT ![s] = NoWrapper]
           /\ deviceObjects' = r.objs
           /\ raLast' = ResourceCall("destructor", 0,
                            IF r.objs # deviceObjects THEN "destroyed" ELSE "nothing")
    /\ UNCHANGED <<m_allocator, raCtx>>
    /\ UNCHANGED nonResourceVars

\* The move constructor: a new wrapper in slot to takes the fields of the
\* wrapper in slot from.
MoveConstruct(from, to) ==
    /\ wrappers[from].alive
    /\ ~wrappers[to].alive
    /\ wrappers' = [wrappers EXCEPT ![to] = wrappers[from],
                                    ![from] = MovedFrom(wrappers[from])]
    /\ raLast' = ResourceCall("moveConstruct", 0, "nothing")
    /\ UNCHANGED <<m_allocator, raCtx, deviceObjects>>
    /\ UNCHANGED nonResourceVars

\* The move assignment to = std::move(from): nothing when the two are the
\* same object; otherwise to releases what it holds and takes from's fields.
MoveAssign(from, to) ==
    /\ wrappers[from].alive /\ wrappers[to].alive
    /\ wrappers[from].kind = wrappers[to].kind
    /\ IF from = to
       THEN /\ raLast' = ResourceCall("moveAssign", 0, "nothing")
            /\ UNCHANGED <<wrappers, deviceObjects>>
       ELSE LET r == ReleaseOf(wrappers[to], deviceObjects) IN
                /\ wrappers' = [wrappers EXCEPT ![to] = wrappers[from],
                                                ![from] = MovedFrom(wrappers[from])]
                /\ deviceObjects' = r.objs
                /\ raLast' = ResourceCall("moveAssign", 0,
                                 IF r.objs # deviceObjects THEN "destroyed" ELSE "nothing")
    /\ UNCHANGED <<m_allocator, raCtx>>
    /\ UNCHANGED nonResourceVars

\* The wrappers on an initialised allocator.
ManagedNext ==
    \E s \in WrapperSlots :
        \/ \E size \in BufferSizes, device \in VmaResults : createBuffer(s, size, device)
        \/ createImage(s)
        \/ \E from \in WrapperSlots : createImageView(s, from)
        \/ createSampler(s)
        \/ release(s)
        \/ Destructor(s)
        \/ \E to \in WrapperSlots : MoveConstruct(s, to)
        \/ \E to \in WrapperSlots : MoveAssign(s, to)

\* createBuffer on an allocator that is initialised and cleaned up.
ResourcesNext ==
    \/ \E result \in VmaResults : ResourceAllocatorInitialize(result)
    \/ ResourceAllocatorCleanup
    \/ \E s \in WrapperSlots, size \in BufferSizes, device \in VmaResults :
           createBuffer(s, size, device)
    \/ \E s \in WrapperSlots : Destructor(s)

(***************************************************************************)
(* MaterialManager: the materials by id.  A PBRMaterial made by            *)
(* make_shared is an entry of materialObjects; shared_ptrs to it are its   *)
(* index.                                                                  *)
(***************************************************************************)
MaxMaterials == 3

MaterialStems == {"a", "b"}
MaterialNames == {"", "gold"}
MaterialValues == {1, 2}
NoMaterial == 0

\* A material json file: the stem of its path, whether it exists, and what
\* parseMaterialJson makes of it.
MaterialFiles ==
    [stem : MaterialStems, exists : BOOLEAN, name : MaterialNames, value : MaterialValues]

MaterialsInit ==
    /\ m_materials = [id \in MaterialStems \cup MaterialNames |-> NoMaterial]
    /\ materialObjects = <<>>
    /\ materialHolders = {}

\* material.name.empty() ? filepath.stem().string() : material.name
MaterialIdOf(file) == IF file.name = "" THEN file.stem ELSE file.name

\* The parsed PBRMaterial.
ParsedMaterial(file) == [name |-> file.name, value |-> file.value]

\* MaterialManager::loadMaterialFromJson: a file that does not exist
\* throws; an id that is in m_materials has its object assigned the new
\* material; otherwise a new object is emplaced.
loadMaterialFromJson(file) ==
    /\ IF ~file.exists
       THEN UNCHANGED <<m_materials, materialObjects>>
       ELSE IF m_materials[MaterialIdOf(file)] # NoMaterial
       THEN /\ materialObjects' =
                   [materialObjects EXCEPT ![m_materials[MaterialIdOf(file)]].payload =
                                               ParsedMaterial(file)]
            /\ UNCHANGED m_materials
       ELSE /\ Len(materialObjects) < MaxMaterials
            /\ materialObjects' = Append(materialObjects,
                   [created |-> ParsedMaterial(file), payload |-> ParsedMaterial(file)])
            /\ m_materials' = [m_materials EXCEPT ![MaterialIdOf(file)] =
                                   Len(materialObjects) + 1]
    /\ UNCHANGED materialHolders
    /\ UNCHANGED nonMaterialVars

\* MaterialManager::getMaterial: the caller holds the shared_ptr from then
\* on; nullptr for an id that is not there.
getMaterial(id) ==
    /\ materialHolders' = IF m_materials[id] # NoMaterial
                          THEN materialHolders \cup {m_materials[id]}
                          ELSE materialHolders
    /\ UNCHANGED <<m_materials, materialObjects>>
    /\ UNCHANGED nonMaterialVars

\* MaterialManager::clear: the map lets go of its objects; holders keep
\* theirs.
MaterialsClear ==
    /\ m_materials' = [id \in DOMAIN m_materials |-> NoMaterial]
    /\ UNCHANGED <<materialObjects, materialHolders>>
    /\ UNCHANGED nonMaterialVars

MaterialsNext ==
    \/ \E file \in MaterialFiles : loadMaterialFromJson(file)
    \/ \E id \in MaterialStems \cup MaterialNames : getMaterial(id)
    \/ MaterialsClear

(***************************************************************************)
(* Renderer::recordFrame, followed statement by statement: the two uniform *)
(* uploads, the two waits on their tokens, the loop over m_passRuntimes.   *)
(***************************************************************************)
PassNames == {"shadow", "main", "post"}
UniformUploads == {"camera", "light"}
NoUploads == [u \in UniformUploads |-> "none"]

\* The configuration before the Renderer exists.
RecordInit ==
    /\ m_passes = <<>>
    /\ rfRuntimes = <<>>
    /\ m_scene = "unset"
    /\ rfAt = "config"
    /\ rfUploads = NoUploads
    /\ rfRecorded = <<>>

\* RenderPassSequence::addPass on the configuration: a name that is there
\* throws, otherwise the pass goes to the back.
addPass(name) ==
    /\ rfAt = "config"
    /\ m_passes' = IF \E i \in 1..Len(m_passes) : m_passes[i] = name
                   THEN m_passes ELSE Append(m_passes, name)
    /\ UNCHANGED <<rfRuntimes, m_scene, rfAt, rfUploads, rfRecorded>>
    /\ UNCHANGED nonRecordVars

\* Renderer::initializePassRuntime as far as the order goes: one runtime
\* per pass of m_config, emplaced in getPasses() order, each with the
\* definition it was made for.
PassRuntimesOf(passes) == [i \in 1..Len(passes) |-> [definition |-> passes[i]]]

\* Renderer::Renderer: m_config is a copy of the configuration, m_scene the
\* Scene service or nullptr, and initializePassRuntime fills m_passRuntimes.
RendererConstruct(scene) ==
    /\ rfAt = "config"
    /\ m_scene' = scene
    /\ rfRuntimes' = PassRuntimesOf(m_passes)
    /\ rfAt' = "idle"
    /\ UNCHANGED <<m_passes, rfUploads, rfRecorded>>
    /\ UNCHANGED nonRecordVars

\* Renderer::onResize between two frames: initializePassRuntime again.
RendererResize ==
    /\ rfAt = "idle"
    /\ rfRuntimes' = PassRuntimesOf(m_passes)
    /\ UNCHANGED <<m_passes, m_scene, rfAt, rfUploads, rfRecorded>>
    /\ UNCHANGED nonRecordVars

\* recordFrame up to uploadCameraData: without a scene it returns at once.
RecordFrameBegin ==
    /\ rfAt = "idle"
    /\ rfRecorded' = <<>>
    /\ IF m_scene = "null"
       THEN /\ rfUploads' = NoUploads
            /\ rfAt' = "idle"
       ELSE /\ rfUploads' = [NoUploads EXCEPT !["camera"] = "pending"]
            /\ rfAt' = "uploadLight"
    /\ UNCHANGED <<m_passes, rfRuntimes, m_scene>>
    /\ UNCHANGED nonRecordVars

\* uploadLightData.
UploadLightData ==
    /\ rfAt = "uploadLight"
    /\ rfUploads' = [rfUploads EXCEPT !["light"] = "pending"]
    /\ rfAt' = "waitCamera"
    /\ UNCHANGED <<m_passes, rfRuntimes, m_scene, rfRecorded>>
    /\ UNCHANGED nonRecordVars

\* The device finishes the copy of an upload and signals its fence.
UploadSignaled(u) ==
    /\ rfUploads[u] = "pending"
    /\ rfUploads' = [rfUploads EXCEPT ![u] = "signaled"]
    /\ UNCHANGED <<m_passes, rfRuntimes, m_scene, rfAt, rfRecorded>>
    /\ UNCHANGED nonRecordVars

\* A wait that returns whatever the fence.
WaitReturns_AtOnce(fence) == TRUE

\* TransferToken::wait() with its default timeout UINT64_MAX returns when
\* the fence of the upload is signaled.
WaitReturns(fence) == fence = "signaled"

\* cameraToken.wait() returns.
CameraWait ==
    /\ rfAt = "waitCamera"
    /\ WaitReturns(rfUploads["camera"])
    /\ rfAt' = "waitLight"
    /\ UNCHANGED <<m_passes, rfRuntimes, m_scene, rfUploads, rfRecorded>>
    /\ UNCHANGED nonRecordVars

\* lightToken.wait() returns: the loop starts.
LightWait ==
    /\ rfAt = "waitLight"
    /\ WaitReturns(rfUploads["light"])
    /\ rfAt' = "passes"
    /\ UNCHANGED <<m_passes, rfRuntimes, m_scene, rfUploads, rfRecorded>>
    /\ UNCHANGED nonRecordVars

\* A wait throws (waitForFences reports a lost device): recordFrame ends
\* with no pass recorded.
WaitThrows ==
    /\ rfAt \in {"waitCamera", "waitLight"}
    /\ rfAt' = "idle"
    /\ UNCHANGED <<m_passes, rfRuntimes, m_scene, rfUploads, rfRecorded>>
    /\ UNCHANGED nonRecordVars

\* One turn of the loop over m_passRuntimes: recordPass of the next
\* runtime; after the last one recordFrame returns.
RecordPassStep ==
    /\ rfAt = "passes"
    /\ IF Len(rfRecorded) < Len(rfRuntimes)
       THEN /\ rfRecorded' = Append(rfRecorded, rfRuntimes[Len(rfRecorded) + 1].definition)
            /\ rfAt' = "passes"
       ELSE /\ rfRecorded' = rfRecorded
            /\ rfAt' = "idle"
    /\ UNCHANGED <<m_passes, rfRuntimes, m_scene, rfUploads>>
    /\ UNCHANGED nonRecordVars

RecordNext ==
    \/ \E name \in PassNames : addPass(name)
    \/ \E scene \in {"null", "scene"} : RendererConstruct(scene)
    \/ RendererResize
    \/ RecordFrameBegin
    \/ UploadLightData
    \/ \E u \in UniformUploads : UploadSignaled(u)
    \/ CameraWait
    \/ LightWait
    \/ WaitThrows
    \/ RecordPassStep

(***************************************************************************)
(* Specifications.  Each follows one subsystem; the others stay as they    *)
(* are after construction.                                                 *)
(***************************************************************************)
CacheIdle == CacheCtor("mesh") /\ fileStatus = "ok"
TransferIdle ==
    TransferInitWith([enable |-> TRUE, maxPooled |-> MaxPooled, minSize |-> 2, maxSize |-> 4])

FrameIdle == FrameInitWith(FramesInFlight)

WriterIdle == WriterInitWith(CHOOSE schema \in WriterSchemas : schema[2].binding = 1)

ShaderIdle == ShaderInitWith([e \in ExistingDirs \X ShaderNames |-> "lit"])

ResizeIdle == ResizeInitWith(<<PreferredFormat>>)

\* After construction: the subsystem followed, in any of its configurations.
InitCache == CacheInit /\ TransferIdle /\ FrameIdle /\ LayoutCacheInit /\ ShaderIdle /\ BatchInit /\ WriterIdle
             /\ AllocatorInit /\ ThreadsInit /\ LocksInit /\ ResizeIdle /\ SetCacheInit /\ SceneInit /\ ResourcesInit /\ MaterialsInit /\ RecordInit
InitTransfer == TransferInit /\ CacheIdle /\ FrameIdle /\ LayoutCacheInit /\ ShaderIdle /\ BatchInit /\ WriterIdle
                /\ AllocatorInit /\ ThreadsInit /\ LocksInit /\ ResizeIdle /\ SetCacheInit /\ SceneInit /\ ResourcesInit /\ MaterialsInit /\ RecordInit
InitFrame == FrameInit /\ CacheIdle /\ TransferIdle /\ LayoutCacheInit /\ ShaderIdle /\ BatchInit /\ WriterIdle
             /\ AllocatorInit /\ ThreadsInit /\ LocksInit /\ ResizeIdle /\ SetCacheInit /\ SceneInit /\ ResourcesInit /\ MaterialsInit /\ RecordInit
InitLayout == LayoutCacheInit /\ CacheIdle /\ TransferIdle /\ FrameIdle /\ ShaderIdle /\ BatchInit /\ WriterIdle
              /\ AllocatorInit /\ ThreadsInit /\ LocksInit /\ ResizeIdle /\ SetCacheInit /\ SceneInit /\ ResourcesInit /\ MaterialsInit /\ RecordInit
InitShader == ShaderInit /\ LayoutCacheInit /\ CacheIdle /\ TransferIdle /\ FrameIdle /\ BatchInit /\ WriterIdle
              /\ AllocatorInit /\ ThreadsInit /\ LocksInit /\ ResizeIdle /\ SetCacheInit /\ SceneInit /\ ResourcesInit /\ MaterialsInit /\ RecordInit
InitWriter == WriterInit /\ CacheIdle /\ TransferIdle /\ FrameIdle /\ LayoutCacheInit /\ ShaderIdle /\ BatchInit
              /\ AllocatorInit /\ ThreadsInit /\ LocksInit /\ ResizeIdle /\ SetCacheInit /\ SceneInit /\ ResourcesInit /\ MaterialsInit /\ RecordInit

\* The resource cache under every operation.
SpecCache == InitCache /\ [][CacheNext]_vars

\* The resource cache under asynchronous loads only.
SpecAsync == InitCache /\ [][AsyncNext]_vars

\* The transfer engine: submissions, reaping and cleanup.
SpecTransfer == InitTransfer /\ [][TransferNext]_vars

\* The descriptor set layout cache.
SpecLayout == InitLayout /\ [][LayoutNext]_vars

\* The frame loop.
SpecFrame == InitFrame /\ [][FrameNext]_vars

\* The transfer engine: waiting on tokens.
SpecToken == InitTransfer /\ [][TokenNext]_vars

\* The transfer engine on a device whose calls can fail.
SpecDevice == InitTransfer /\ [][DeviceNext]_vars

\* Uploads with their tokens waited on.
SpecHeldUpload == InitTransfer /\ [][HeldUploadNext]_vars

\* The staging pool of one thread.
InitStaging == StagingInit /\ CacheIdle /\ FrameIdle /\ LayoutCacheInit /\ ShaderIdle /\ BatchInit
               /\ WriterIdle /\ AllocatorInit /\ ThreadsInit /\ LocksInit /\ ResizeIdle /\ SetCacheInit /\ SceneInit /\ ResourcesInit /\ MaterialsInit /\ RecordInit
SpecStaging == InitStaging /\ [][StagingNext]_vars

\* The shader cache with the layout cache behind it.
SpecShader == InitShader /\ [][ShaderNext]_vars

\* The descriptor set writer.
SpecWriter == InitWriter /\ [][WriterNext]_vars

\* The descriptor pool allocator.
InitAllocator == AllocatorInit /\ CacheIdle /\ TransferIdle /\ FrameIdle /\ LayoutCacheInit
                 /\ ShaderIdle /\ BatchInit /\ WriterIdle /\ ThreadsInit /\ LocksInit /\ ResizeIdle /\ SetCacheInit /\ SceneInit /\ ResourcesInit /\ MaterialsInit /\ RecordInit
SpecAllocator == InitAllocator /\ [][AllocatorNext]_vars

\* The command pools of the transfer engine under two calling threads.
InitThreads == ThreadsInit /\ CacheIdle /\ TransferIdle /\ FrameIdle /\ LayoutCacheInit
               /\ ShaderIdle /\ BatchInit /\ WriterIdle /\ AllocatorInit /\ LocksInit /\ ResizeIdle /\ SetCacheInit /\ SceneInit /\ ResourcesInit /\ MaterialsInit /\ RecordInit
SpecThreads == InitThreads /\ [][ThreadsNext]_vars

\* The loaders of two threads around the mutexes of the resource caches.
InitLocks == LocksInit /\ CacheIdle /\ TransferIdle /\ FrameIdle /\ LayoutCacheInit
             /\ ShaderIdle /\ BatchInit /\ WriterIdle /\ AllocatorInit /\ ThreadsInit
             /\ ResizeIdle /\ SetCacheInit /\ SceneInit /\ ResourcesInit /\ MaterialsInit /\ RecordInit
SpecLocks == InitLocks /\ [][LocksNext]_vars

\* The render thread: frames and resizes.
InitResize == ResizeInit /\ CacheIdle /\ TransferIdle /\ FrameIdle /\ LayoutCacheInit
              /\ ShaderIdle /\ BatchInit /\ WriterIdle /\ AllocatorInit /\ ThreadsInit
              /\ LocksInit /\ SetCacheInit /\ SceneInit /\ ResourcesInit /\ MaterialsInit /\ RecordInit
SpecResize == InitResize /\ [][ResizeNext]_vars

\* Threads calling getOrAllocateDescriptorSet.
InitSetCache == SetCacheInit /\ CacheIdle /\ TransferIdle /\ FrameIdle /\ LayoutCacheInit
                /\ ShaderIdle /\ BatchInit /\ WriterIdle /\ AllocatorInit /\ ThreadsInit
                /\ LocksInit /\ ResizeIdle /\ SceneInit /\ ResourcesInit /\ MaterialsInit /\ RecordInit
SpecSetCache == InitSetCache /\ [][SetCacheNext]_vars

\* A Scene and the calls that create its nodes.
InitScene == SceneInit /\ CacheIdle /\ TransferIdle /\ FrameIdle /\ LayoutCacheInit
             /\ ShaderIdle /\ BatchInit /\ WriterIdle /\ AllocatorInit /\ ThreadsInit
             /\ LocksInit /\ ResizeIdle /\ SetCacheInit /\ ResourcesInit /\ MaterialsInit /\ RecordInit
SpecScene == InitScene /\ [][SceneNext]_vars

\* The wrappers of device resources on an initialised allocator.
InitManaged == ManagedInit /\ CacheIdle /\ TransferIdle /\ FrameIdle /\ LayoutCacheInit
               /\ ShaderIdle /\ BatchInit /\ WriterIdle /\ AllocatorInit /\ ThreadsInit
               /\ LocksInit /\ ResizeIdle /\ SetCacheInit /\ SceneInit /\ MaterialsInit /\ RecordInit
SpecManaged == InitManaged /\ [][ManagedNext]_vars

\* The resource allocator from its construction.
InitResources == ResourcesInit /\ CacheIdle /\ TransferIdle /\ FrameIdle /\ LayoutCacheInit
                 /\ ShaderIdle /\ BatchInit /\ WriterIdle /\ AllocatorInit /\ ThreadsInit
                 /\ LocksInit /\ ResizeIdle /\ SetCacheInit /\ SceneInit /\ MaterialsInit /\ RecordInit
SpecResources == InitResources /\ [][ResourcesNext]_vars

\* The material manager.
InitMaterials == MaterialsInit /\ CacheIdle /\ TransferIdle /\ FrameIdle /\ LayoutCacheInit
                 /\ ShaderIdle /\ BatchInit /\ WriterIdle /\ AllocatorInit /\ ThreadsInit
                 /\ LocksInit /\ ResizeIdle /\ SetCacheInit /\ SceneInit /\ ResourcesInit /\ RecordInit
SpecMaterials == InitMaterials /\ [][MaterialsNext]_vars

\* The recording of a frame.
InitRecord == RecordInit /\ CacheIdle /\ TransferIdle /\ FrameIdle /\ LayoutCacheInit
              /\ ShaderIdle /\ BatchInit /\ WriterIdle /\ AllocatorInit /\ ThreadsInit
              /\ LocksInit /\ ResizeIdle /\ SetCacheInit /\ SceneInit /\ ResourcesInit
              /\ MaterialsInit
SpecRecord == InitRecord /\ [][RecordNext]_vars

\* The resource cache under one batch load.
SpecBatch == InitCache /\ [][BatchNext]_vars

(***************************************************************************)
(* Claims about the resource cache                                         *)
(***************************************************************************)

\* C1: when threads call loadTextureAsync concurrently with paths that
\* normalise to one id that is neither loaded nor loading, the file is loaded
\* exactly once, every returned future resolves to that id, and at steady
\* state the loaded map holds the entry of the id.  (Checked where only
\* async loads are issued and the file is a good asset.)
C1_SingleLoadPerId ==
    (cacheKind = "texture" /\ fileStatus = "ok") =>
        /\ fileReads[IdA] <= 1
        /\ futuresOk
        /\ \A j \in 1..Len(jobs) :
              jobs[j].pc = "done" => (jobs[j].res = "value" /\ jobs[j].rid = IdA)
        /\ (Quiescent /\ Len(jobs) > 0) => IsLoaded(IdA)

\* C6: an async load task, finishing with a value or with an error, has
\* removed its entry from the loading map when its future becomes ready, and
\* once every started task has finished the loading map is empty.
C6_LoadingErasedBeforeReady ==
    /\ \A j \in 1..Len(jobs) :
          (jobs[j].async /\ jobs[j].pc = "done") => loading[jobs[j].id] # j
    /\ Quiescent => \A n \in Names : loading[n] = 0

\* A task that ended with an error has made its future ready, and nothing
\* else is running.
C6_Witness ==
    /\ Quiescent
    /\ \E j \in 1..Len(jobs) : jobs[j].async /\ jobs[j].pc = "done" /\ jobs[j].res = "error"

\* C7: before cleanup the built-in resources default_cube and default_white
\* stay retrievable, whatever load, register and unload calls are made.
C7_DefaultsRetrievable == IsLoaded(DefaultName(cacheKind))

\* C14: direct loadMesh / loadTexture calls on spellings of one path, one
\* after the other or racing, all return the same id; and a load that finds
\* an entry of its id in the loaded map when it comes to insert leaves the
\* entry as it is: the handle inserted first is kept, the later result dropped.
C14_SyncLoadsKeepFirstHandle ==
    [][/\ \A j \in 1..Len(jobs') :
             (~jobs'[j].async /\ jobs'[j].res = "value") => jobs'[j].rid = IdA
       /\ \A j \in 1..Len(jobs) :
             (jobs[j].pc = "insert" /\ jobs'[j].pc # "insert" /\ IsLoaded(jobs[j].id))
                 => loaded'[jobs[j].id] = loaded[jobs[j].id]]_vars

\* Two direct loads given different spellings have both read the file and
\* returned, and the loaded map holds the handle of one of them.
C14_Witness ==
    /\ Len(jobs) = 2
    /\ \A j \in 1..2 : ~jobs[j].async /\ jobs[j].pc = "done" /\ jobs[j].res = "value"
    /\ fileReads[IdA] = 2
    /\ loaded[IdA] \in {JobHandle(1), JobHandle(2)}

C17_BatchAfterAllInInputOrder ==
    batch.pc = "done" =>
        /\ \A k \in 1..Len(batch.futures) : FutureReady(batch.futures[k])
        /\ batch.res = "value" =>
               batch.ids = [k \in 1..Len(batch.paths) |-> normalizeResourcePath(batch.paths[k])]

\* A lookup under the cache lock finds the id in loading or in loaded.
Found(n) == IsLoading(n) \/ IsLoaded(n)

\* C38: an id that a lookup finds, in loading or in loaded, stops being found
\* only by an unload of the id or by the end of a load of the id that has
\* failed; the end of a load that succeeded leaves the id in loaded.
C38_FoundUntilUnloadedOrFailed ==
    [][\A n \in Names :
          (Found(n) /\ ~Found(n)') =>
              \/ jobs' = jobs
              \/ \E j \in 1..Len(jobs) :
                     /\ jobs[j].id = n
                     /\ jobs[j].pc = "erase"
                     /\ jobs'[j].pc = "publish"
                     /\ jobs[j].res = "error"]_vars

(***************************************************************************)
(* Claims about the transfer engine                                        *)
(***************************************************************************)

\* C2: at every point of a sequence of submissions, reaping passes and
\* cleanup, a TransferToken still held by a caller either has its completed
\* flag set or refers to a fence that has been neither destroyed nor reset
\* for reuse (the fence is still the fence of its active submission, not in
\* the free list, not destroyed).
C2_HeldTokenCompletedOrFenceLive ==
    \A t \in 1..Len(subs) :
        subs[t].extRefs > 0 =>
            \/ subs[t].completed
            \/ /\ IsActive(subs[t])
               /\ fences[subs[t].fence] # "destroyed"
               /\ subs[t].fence \notin SeqRange(fencePool)

\* C3: when a new command list is submitted, an earlier submission that is
\* not both signaled and free of outside token copies is left untouched: it
\* stays in activeSubmissions, its fence is not reset and not put on the free
\* list, and the staging buffers it was recorded with stay in the pool and
\* stay in use.
C3_ReapOnlySignaledUnreferenced ==
    [][(tmPhase = "live" /\ Len(subs') = Len(subs) + 1) =>
          \A t \in 1..Len(subs) :
              (IsActive(subs[t]) /\ ~Reapable(subs[t])) =>
                  /\ IsActive(subs'[t])
                  /\ subs'[t].fence = subs[t].fence
                  /\ fences'[subs[t].fence] = fences[subs[t].fence]
                  /\ subs[t].fence \notin SeqRange(fencePool')
                  /\ \A b \in subs[t].bufs :
                        (\E i \in 1..Len(pool) : pool[i].buf = b /\ pool[i].inUse) =>
                        (\E i \in 1..Len(pool') : pool'[i].buf = b /\ pool'[i].inUse)]_vars

\* C8: TransferToken.wait(timeout) returns normally when the timeout elapses
\* before the fence signals, and the token is then not completed; it throws
\* only when the fence wait itself fails.
C8_WaitReturnsOnTimeout ==
    tmLast.op = "wait" =>
        /\ tmLast.cause = "timeout" =>
              (tmLast.outcome = "returned" /\ ~subs[tmLast.tok].completed)
        /\ tmLast.outcome = "threw" => tmLast.cause = "error"

\* A call of uploadToBuffer or copyBuffer with the arguments a.
TransferCall(a) ==
    \E fault \in Faults : UploadToBufferWith(a, fault) \/ CopyBufferWith(a, fault)

ActiveSubmissions(ss) == {t \in 1..Len(ss) : IsActive(ss[t])}

\* C22: a transfer call in which a device call fails throws to the caller,
\* records no submission, and leaves no command buffer allocated beyond
\* those of the active submissions.
C22_FailedCallDiscardsCommandList ==
    [][\A a \in TransferArgs, fault \in Faults \ {"none"} :
          (UploadToBufferWith(a, fault) \/ CopyBufferWith(a, fault)) =>
              /\ tmLast'.outcome = "threw"
              /\ Len(subs') = Len(subs)
              /\ cmdBuffers' = Cardinality(ActiveSubmissions(subs'))]_vars

\* The pool entries that are not in use and hold at least size.
FreeAndLargeEnough(p, size) == {i \in 1..Len(p) : ~p[i].inUse /\ p[i].size >= size}

\* C23: with pooling enabled, acquireStagingBuffer returns the first entry
\* that is not in use and has capacity >= the requested size, and marks it in
\* use, leaving the rest of the pool as it is; an entry it returns that was in
\* the pool before is never one that was in use or smaller than the request,
\* and whatever it returns is in use and large enough afterwards.
C23_AcquireFirstFreeFit ==
    [][\A size \in StagingSizes :
          (StagingAcquire(size) /\ tmConfig.enable) =>
              LET fits == FreeAndLargeEnough(pool, size)
                  entry == stLast'.idx + 1
              IN /\ fits # {} =>
                        /\ entry \in fits
                        /\ \A k \in fits : entry <= k
                        /\ pool' = [pool EXCEPT ![entry].inUse = TRUE]
                 /\ entry <= Len(pool) => entry \in fits
                 /\ entry \in 1..Len(pool')
                 /\ pool'[entry].inUse
                 /\ pool'[entry].size >= size]_vars

\* An acquire passed over the first entry, in use or too small, and returned
\* the second, which was in the pool already.
C23_Witness ==
    /\ tmConfig.enable
    /\ stLast.op = "acquire"
    /\ stLast.len = 2
    /\ stLast.idx = 1
    /\ pool[2].inUse
    /\ pool[1].inUse \/ pool[1].size < stLast.size

\* acquireStagingBuffer created a pooled buffer: pooling is on, no entry
\* fitted, and the pool was below maxPooledStagingBuffers.
CreatesPooled(size) ==
    /\ StagingAcquire(size)
    /\ tmConfig.enable
    /\ FreeAndLargeEnough(pool, size) = {}
    /\ Len(pool) < tmConfig.maxPooled

\* C24: the pooled buffer created has size max(requestedSize,
\* minBufferSize) clamped to at most maxBufferSize (for a configuration that
\* sets a maximum).
C24_CreatedSizeClamped ==
    [][\A size \in StagingSizes :
          (CreatesPooled(size) /\ tmConfig.maxSize > 0) =>
              pool'[Len(pool')].size = Min2(Max2(size, tmConfig.minSize), tmConfig.maxSize)]_vars

\* The entries of p whose index is not in drop, in their order.
RECURSIVE KeepIndices(_, _, _)
KeepIndices(p, drop, i) ==
    IF i > Len(p) THEN <<>>
    ELSE (IF i \in drop THEN <<>> ELSE <<p[i]>>) \o KeepIndices(p, drop, i + 1)

\* C25: cleanupUnusedStagingBuffers removes entries that are not in use,
\* those nearest the tail, as many as it takes to bring the pool down to
\* maxPooledStagingBuffers entries or until no entry not in use is left; every
\* other entry, and so every entry in use, stays, in its order.  With pooling
\* off it removes nothing.
C25_CleanupTrimsFreeTail ==
    [][StagingCleanup =>
          LET free == {i \in 1..Len(pool) : ~pool[i].inUse}
              excess == Max2(0, Len(pool) - tmConfig.maxPooled)
              n == IF tmConfig.enable THEN Min2(Cardinality(free), excess) ELSE 0
              removed == {i \in free : Cardinality({j \in free : j > i}) < n}
          IN pool' = KeepIndices(pool, removed, 1)]_vars

\* A cleanup removed an entry that was not in use and kept one that is.
C25_Witness ==
    /\ tmConfig.enable
    /\ stLast.op = "cleanup"
    /\ stLast.len = 2
    /\ Len(pool) = 1
    /\ pool[1].inUse

\* C26: a wait that returns has the token completed, a completed token stays
\* completed and isComplete on it returns true; and when a submission whose
\* token was waited on successfully has no token copy left outside, the next
\* submission releases the staging buffers that submission was recorded
\* with: none of them is in the pool marked in use afterwards.
C26_WaitedTokenCompleteAndReleased ==
    [][/\ \A t \in 1..Len(subs) :
             /\ (\E timeout \in Timeouts : TokenWait(t, timeout))
                    => (tmLast'.outcome = "returned" => subs'[t].completed)
             /\ subs[t].completed => subs'[t].completed
             /\ (TokenIsComplete(t) /\ subs[t].completed) => tmLast'.cause = "true"
       /\ (\E a \in TransferArgs : UploadToBuffer(a) /\ tmLast'.outcome = "returned") =>
             \A t \in 1..Len(subs) :
                 (IsActive(subs[t]) /\ subs[t].completed /\ subs[t].extRefs = 0) =>
                     \A b \in subs[t].bufs :
                         ~\E i \in 1..Len(pool') : pool'[i].buf = b /\ pool'[i].inUse]_vars

\* C27: every use of a command pool of the transfer engine (creating it,
\* allocating a command buffer from it, freeing one of its command buffers,
\* destroying it) is made by the thread that created the pool.
C27_CommandPoolUsedByCreatorOnly ==
    \A use \in poolUses : use.by = use.owner

\* C36: while the manager is in use, every staging index recorded for a
\* submission that is still in activeSubmissions is inside the pool and names
\* a buffer the submission acquired.
C36_PendingIndicesStable ==
    \A t \in 1..Len(subs) :
        (tmPhase = "live" /\ IsActive(subs[t])) =>
            \A k \in 1..Len(subs[t].staging) :
                /\ subs[t].staging[k] < Len(pool)
                /\ pool[subs[t].staging[k] + 1].buf \in subs[t].bufs

\* C37: once cleanup has destroyed the thread's staging buffers and command
\* pools, no active submission is unfinished on the GPU: the fence of every
\* active submission has been waited for before.
C37_TeardownAfterFenceWait ==
    tmPhase \in {"cleaning", "dead"} => Pending = {}

\* The number of staging buffers recorded for the submissions from the i-th
\* on that are still in activeSubmissions.
RECURSIVE HeldStaging(_, _)
HeldStaging(ss, i) ==
    IF i > Len(ss) THEN 0
    ELSE (IF IsActive(ss[i]) THEN Len(ss[i].staging) ELSE 0) + HeldStaging(ss, i + 1)

\* C40: while the manager is in use, the staging pool has at most
\* maxPooledStagingBuffers entries beside those held by submissions that
\* have not been reaped, with pooling enabled or disabled.
C40_PoolSizeBounded ==
    tmPhase = "live" => Len(pool) <= tmConfig.maxPooled + HeldStaging(subs, 1)

(***************************************************************************)
(* Claims about the mutexes of the resource caches                         *)
(***************************************************************************)
\* The parts of a loader in which a file is looked at, read or parsed.
FileParts == {"exists", "readFile"}

\* The parts of a loader in which objects are created on the device.
DeviceParts == {"createModules", "reflect"}

\* The parts that look up, insert into or erase from a cache map.
MapParts == {"lookup", "insert", "erase"}

\* C28: a thread that is reading or parsing a file or creating device
\* objects holds no resource-cache mutex; a thread that holds one is in a
\* lookup, an insertion or a removal on the cache's maps.
C28_NoCacheMutexAcrossFileOrDeviceWork ==
    \A c \in Caches :
        cacheMutex[c] # "none" =>
            /\ loaderAt[cacheMutex[c]].part \in MapParts
            /\ loaderAt[cacheMutex[c]].part \notin FileParts \cup DeviceParts
            /\ CacheOf(loaderAt[cacheMutex[c]].fn) = c

\* One thread reads a file while the other is inside a block of the same
\* cache's mutex, and a shader's modules are created with the mutex free.
C28_Witness ==
    \/ /\ loaderAt["a"] = [fn |-> "loadMesh", part |-> "readFile"]
       /\ cacheMutex["mesh"] = "b"
    \/ /\ loaderAt["a"] = [fn |-> "loadShader", part |-> "createModules"]
       /\ cacheMutex["shader"] = "b"

(***************************************************************************)
(* Claims about the resize                                                 *)
(***************************************************************************)
SwapchainCalls == {"destroySwapchainKHR", "createSwapchainKHR"}

\* The functions of the renderer and the context that a call of onResize runs.
OnResizeFunctions == {"onResize", "recreateSwapchain", "cleanupSwapchain", "createSwapchainInternal"}

\* C29, as stated: in every resize, the destruction of the old swapchain and
\* the creation of the new one come after a wait for the idle device made by
\* onResize or a function it calls.
C29_OnResizeWaitsForIdle ==
    \A i \in 1..Len(deviceCalls) :
        deviceCalls[i].call \in SwapchainCalls =>
            \E j \in 1..(i - 1) : /\ deviceCalls[j].call = "waitIdle"
                                  /\ deviceCalls[j].by \in OnResizeFunctions

\* C29, amended: the old swapchain is destroyed and the new one created with
\* no frame unfinished on the device, after a wait for the idle device that
\* the caller of onResize makes (recreateSwapchainResources of the frame loop).
C29_SwapchainRecreatedOnIdleDevice ==
    \A i \in 1..Len(deviceCalls) :
        deviceCalls[i].call \in SwapchainCalls =>
            /\ deviceCalls[i].busy = 0
            /\ deviceCalls[i].by \in OnResizeFunctions
            /\ \E j \in 1..(i - 1) : /\ deviceCalls[j].call = "waitIdle"
                                     /\ deviceCalls[j].by = "recreateSwapchainResources"

\* A resize that began with frames unfinished has recreated the swapchain.
C29_Witness ==
    /\ Len(deviceCalls) = 3
    /\ deviceCalls[1].busy > 0
    /\ deviceCalls[2].call = "destroySwapchainKHR"

\* C30: after a resize that has changed the format of the swapchain, the
\* pipeline of every pass runtime (each pass draws to the swapchain) is one
\* built for the new format.
C30_PipelinesFollowSwapchainFormat ==
    [][\A formats \in SurfaceFormatLists \cup {<<"Undefined">>} :
          (/\ recreateSwapchainResources(formats, FALSE)
           /\ m_swapchainImageFormat' # m_swapchainImageFormat)
          => \A i \in 1..Len(m_passRuntimes') :
                 m_passRuntimes'[i].pipeline.colorFormats = <<m_swapchainImageFormat'>>]_vars

(***************************************************************************)
(* Claims about the descriptor sets per shader prefix                      *)
(***************************************************************************)
\* C39: for every shader prefix, the getOrAllocateDescriptorSet calls made
\* so far, by whatever threads, have all returned the same descriptor sets,
\* and the sets of the prefix have been allocated from the pool at most once.
C39_OneSetVectorPerPrefix ==
    \A prefix \in Prefixes :
        /\ Cardinality(setsReturned[prefix]) <= 1
        /\ allocations[prefix] <= 1

(***************************************************************************)
(* Claims about the frame loop                                             *)
(***************************************************************************)

\* C4: a frame is never recorded into a per-frame slot while an earlier
\* frame that used the same slot is still in flight, and the frames in
\* flight are fewer than framesInFlight apart: frame i + framesInFlight is
\* recorded only after the fence wait for frame i has returned.
C4_SlotNotSharedInFlight ==
    \A i, j \in 1..Len(inFlight) :
        i < j =>
            /\ inFlight[i].slot # inFlight[j].slot
            /\ inFlight[j].no - inFlight[i].no < FramesInFlight

\* C5: each of the framesInFlight slots owns descriptor sets distinct from
\* those of every other slot, so the sets written for the frame being
\* recorded are not sets bound by another frame in flight.
C5_SlotsOwnDistinctSets ==
    /\ \A a, b \in 1..Len(frameResources) :
          a # b => SeqRange(frameResources[a].descriptorSets)
                     \cap SeqRange(frameResources[b].descriptorSets) = {}
    /\ \A i \in 1..Len(inFlight) :
          inFlight[i].no # lastWrite.no => inFlight[i].sets \cap lastWrite.sets = {}

(***************************************************************************)
(* Claims about the descriptor set layout cache                            *)
(***************************************************************************)

C10_SameStructureSameHandle ==
    \A r1, r2 \in regLog :
        LayoutKeyEqual(LayoutKey(r1.setIndex, SortByBinding(r1.input)),
                       LayoutKey(r2.setIndex, SortByBinding(r2.input)))
            => r1.schema = r2.schema

\* Two successful calls under different schema names with the same bindings
\* given in different orders.
C10_Witness ==
    \E r1, r2 \in regLog :
        /\ r1.name # r2.name
        /\ r1.input # r2.input
        /\ Len(r1.input) > 1
        /\ r1.input[1].binding # r2.input[1].binding
        /\ LayoutKeyEqual(LayoutKey(r1.setIndex, SortByBinding(r1.input)),
                          LayoutKey(r2.setIndex, SortByBinding(r2.input)))

\* The successful registerSetLayout calls made so far for (schemaName, setIndex).
RegisteredAs(schemaName, setIndex) ==
    {r \in regLog : r.name = schemaName /\ r.setIndex = setIndex}

\* The schema those calls returned.
HandleOf(schemaName, setIndex) == (CHOOSE r \in RegisteredAs(schemaName, setIndex) : TRUE).schema

\* C11: for a (schemaName, setIndex) that has been registered, and until the
\* cache is cleaned up, every further successful registerSetLayout call and
\* every getSchema call returns the schema instance the first registration
\* returned, and the layout handle of that schema does not change.
C11_StableSchemaPerName ==
    [][lcAlive' =>
          \A n \in SchemaNames, i \in SetIndices :
              RegisteredAs(n, i) # {} =>
                  /\ \A r \in regLog' : (r.name = n /\ r.setIndex = i) => r.schema = HandleOf(n, i)
                  /\ getSchema(n, i) => lcLast'.schema = HandleOf(n, i)
                  /\ schemas'[HandleOf(n, i)].layout = schemas[HandleOf(n, i)].layout
                  /\ schemas[HandleOf(n, i)].layout = "live"]_vars

\* getSchema has returned the schema that two successful registrations of one
\* (schemaName, setIndex), made with differently written binding lists, returned.
C11_Witness ==
    /\ lcLast.op = "getSchema"
    /\ lcLast.schema # 0
    /\ \E r1, r2 \in regLog :
          /\ r1.name = r2.name /\ r1.setIndex = r2.setIndex
          /\ r1.input # r2.input
          /\ r1.schema = lcLast.schema

\* The structure of a binding list, whatever its order and its names.
StructureOf(bs) ==
    {[binding |-> bs[k].binding, descriptorType |-> bs[k].descriptorType,
      descriptorCount |-> bs[k].descriptorCount, stageFlags |-> bs[k].stageFlags] : k \in 1..Len(bs)}

StructurallyDifferent(as, bs) == Len(as) # Len(bs) \/ StructureOf(as) # StructureOf(bs)

MismatchOutcomes == {"size mismatch", "structure mismatch"}

\* C12: a registerSetLayout call for a (schemaName, setIndex) that is already
\* registered, with a binding list structurally different from the registered
\* schema's, fails with a schema mismatch error and changes nothing: the
\* schemas, the structural map and the name map are as before, so the name
\* still resolves to the original schema and no layout was created.
C12_MismatchRejected ==
    [][\A n \in SchemaNames, i \in SetIndices, bs \in BindingLists, created \in BOOLEAN :
          LET existing == FindByName(makeNameKey(n, i))
          IN (/\ registerSetLayout(n, i, bs, created)
              /\ existing # 0
              /\ StructurallyDifferent(schemas[existing].bindings, bs))
             => /\ lcLast'.outcome \in MismatchOutcomes
                /\ UNCHANGED <<schemas, schemasByKey, schemasByName, regLog>>]_vars

\* A registration has just been refused for its structure, in a cache that
\* holds a schema under two names.
C12_Witness ==
    /\ lcLast.op = "register"
    /\ lcLast.outcome = "structure mismatch"
    /\ \E e1, e2 \in schemasByName : e1.nameKey # e2.nameKey /\ e1.schema = e2.schema

(***************************************************************************)
(* Claims about the shader cache                                           *)
(***************************************************************************)

\* Two of the stage files declare the same (set, binding, descriptorType)
\* with different descriptor counts.
StagesDisagree(files) ==
    \E a, b \in 1..Len(files), i \in SetIndices :
        \E x \in 1..Len(files[a].sets[i]), y \in 1..Len(files[b].sets[i]) :
            /\ files[a].sets[i][x].binding = files[b].sets[i][y].binding
            /\ files[a].sets[i][x].descriptorType = files[b].sets[i][y].descriptorType
            /\ files[a].sets[i][x].descriptorCount # files[b].sets[i][y].descriptorCount

\* C13: a loadShader call whose stage files declare one (set, binding,
\* descriptorType) with different descriptor counts fails; the call registers
\* no layout (the layout cache is as before, for every set of the shader
\* name) and inserts no program into the shader cache.
C13_CountMismatchLoadsNothing ==
    [][\A filepath \in ShaderDirs, shaderName \in ShaderNames, enableComputeShader \in BOOLEAN,
          order \in SetOrders, created \in BOOLEAN :
          LET dir == normalizeResourcePath(filepath)
          IN (/\ loadShader(filepath, shaderName, enableComputeShader, order, created)
              /\ dir \in ExistingDirs
              /\ StagesDisagree(ShaderFiles(ShaderSources[shaderFs[<<dir, shaderName>>]],
                                            enableComputeShader)))
             => /\ shLast'.outcome # "returned"
                /\ UNCHANGED <<schemas, schemasByKey, schemasByName, loadedShaders>>]_vars

\* A load has failed on the descriptor counts in a cache that holds the
\* layouts and the program of an earlier load of the same shader name.
C13_Witness ==
    /\ shLast.op = "load"
    /\ shLast.outcome = "count mismatch"
    /\ schemasByName # {}
    /\ loadedShaders[shLast.name] # NoProgram

\* C16: after a loadShader call has built a program and returned, the program
\* is the entry of the returned resource id and the entry of the bare shader
\* name, and getShaderprogram gives it for both.
C16_ProgramUnderIdAndName ==
    (shLast.op = "load" /\ shLast.outcome = "returned" /\ shLast.program # NoProgram) =>
        /\ loadedShaders[shLast.id] = shLast.program
        /\ loadedShaders[shLast.name] = shLast.program
        /\ ProgramOf(shLast.id) = shLast.program
        /\ ProgramOf(shLast.name) = shLast.program

(***************************************************************************)
(* Claims about the descriptor set writer                                  *)
(***************************************************************************)

\* The last N entries of a list.
LastEntries(list, n) == SubSeq(list, Len(list) - n + 1, Len(list))

\* The write of update for a binding index that is applied last.
LastFlushedFor(binding) ==
    CHOOSE k \in 1..Len(flushed) :
        /\ flushed[k].dstBinding = binding
        /\ \A h \in (k + 1)..Len(flushed) : flushed[h].dstBinding # binding

\* C18: a write flushed by update that comes from an array write of N entries
\* to a binding declared with descriptorCount C carries min(N, C) entries,
\* the caller's last min(N, C) entries in their order, and these are what the
\* descriptor set then holds from element 0 of the binding.
C18_ArrayWriteKeepsLast ==
    \A k \in 1..Len(flushed) :
        flushed[k].array =>
            LET w == flushed[k]
                n == Min2(Len(w.given), w.declared)
            IN /\ w.descriptorCount = n
               /\ Len(w.infos) = n
               /\ w.infos = LastEntries(w.given, n)
               /\ (wLast.op = "update" /\ LastFlushedFor(w.dstBinding) = k) =>
                     /\ Len(deviceSet[w.dstBinding]) >= n
                     /\ \A j \in 1..n :
                           deviceSet[w.dstBinding][j] = <<w.kind, LastEntries(w.given, n)[j]>>

\* update has flushed an array write of three entries to a binding of count 2.
C18_Witness ==
    /\ wLast.op = "update"
    /\ \E k \in 1..Len(flushed) :
          flushed[k].array /\ Len(flushed[k].given) = 3 /\ flushed[k].declared = 2

\* The names of the bindings of the writer's schema.
SchemaBindingNames == {wSchema[k].name : k \in 1..Len(wSchema)}

\* C19: a write call naming a binding that is not in the schema throws,
\* leaves the queued writes as they are and publishes nothing; and the
\* descriptor set changes in no call but update.
C19_UnknownBindingRejected ==
    [][/\ \A bindingName \in BindingNames \ SchemaBindingNames :
             (\/ \E info \in Infos : writeBuffer(bindingName, info) \/ writeImage(bindingName, info)
              \/ \E infos \in InfoLists :
                     writeBuffers(bindingName, infos) \/ writeImages(bindingName, infos))
             => /\ wLast'.outcome = "binding not found"
                /\ UNCHANGED <<bufferWrites, imageWrites, deviceSet, flushed>>
       /\ (deviceSet' # deviceSet \/ wLast'.issued) => wLast'.op = "update"]_vars

\* A write has been refused for its name while an earlier write is queued
\* and nothing has been published.
C19_Witness ==
    /\ wLast.outcome = "binding not found"
    /\ bufferWrites # <<>>
    /\ \A b \in DOMAIN deviceSet : deviceSet[b] = <<>>

(***************************************************************************)
(* Claims about the descriptor pool allocator                              *)
(***************************************************************************)
\* The pools a step appended to m_usedPools, in the order they were acquired.
NewlyUsed == SubSeq(m_usedPools', Len(m_usedPools) + 1, Len(m_usedPools'))
AllocateStep == \E valid \in BOOLEAN, count \in SetCounts : allocate(valid, count)

\* C20: an allocate or resetPools call destroys no descriptor pool;
\* resetPools leaves every pool that was in use (and every pool that was
\* free) in the free list and none in use; each pool an allocate call
\* acquires is taken from the free list while that list has a pool left,
\* and is created only once the list is empty.
C20_PoolsRecycledNotDestroyed ==
    [][/\ (AllocateStep \/ resetPools) =>
              \A h \in PoolHandles :
                  descriptorPools'[h].status = "destroyed"
                      => descriptorPools[h].status = "destroyed"
       /\ resetPools =>
              /\ SeqRange(m_usedPools) \cup SeqRange(m_freePools) = SeqRange(m_freePools')
              /\ m_usedPools' = <<>>
              /\ \A h \in SeqRange(m_freePools') : descriptorPools'[h].status = "live"
       /\ AllocateStep =>
              /\ Len(m_usedPools') >= Len(m_usedPools)
              /\ \A i \in DOMAIN NewlyUsed :
                     IF i <= Len(m_freePools)
                     THEN /\ NewlyUsed[i] \in SeqRange(m_freePools)
                          /\ NewlyUsed[i] \notin SeqRange(m_freePools')
                          /\ descriptorPools[NewlyUsed[i]].status = "live"
                     ELSE /\ descriptorPools[NewlyUsed[i]].status = "none"
                          /\ descriptorPools'[NewlyUsed[i]].status = "live"
                          /\ m_freePools' = <<>>
              /\ \A h \in PoolHandles :
                     (descriptorPools[h].status = "none" /\ descriptorPools'[h].status = "live")
                         => h \in SeqRange(NewlyUsed)
      ]_vars

\* An allocate call found its current pool exhausted while the free list
\* held a pool left there by resetPools: it took that pool and created none.
C20_Witness ==
    /\ paLast.op = "allocate"
    /\ paLast.outcome = "returned"
    /\ Len(paLast.acquired) = 1
    /\ ~paLast.acquired[1].fresh
    /\ m_currentPool = paLast.acquired[1].pool
    /\ Len(m_usedPools) = 2
    /\ Len(m_freePools) = 0
    /\ \A h \in PoolHandles : descriptorPools[h].status # "destroyed"

(***************************************************************************)
(* Claims about the Scene                                                  *)
(***************************************************************************)
\* C32: the ids of a Scene's nodes start at 1 and are strictly increasing
\* in creation order, whatever the kinds of the nodes, so no two nodes of
\* the Scene have the same id.
C32_NodeIdsStartAtOneAndIncrease ==
    /\ Len(m_nodes) > 0 => m_nodes[1].id = 1
    /\ \A i, j \in 1..Len(m_nodes) : i < j => m_nodes[i].id < m_nodes[j].id

\* Nodes of every kind were created, a camera after other nodes.
C32_Witness ==
    /\ Len(m_nodes) >= 3
    /\ {m_nodes[i].type : i \in 1..Len(m_nodes)} = NodeTypes
    /\ m_nodes[1].type # "Camera"
    /\ m_activeCameraId > 1

(***************************************************************************)
(* Claims about the resource allocator and its wrappers                    *)
(***************************************************************************)
\* The wrapper in slot s is the one that will destroy device object h.
Owns(s, h) ==
    LET w == wrappers[s] IN
        /\ w.alive /\ w.m_owner
        /\ \/ w.kind = "buffer" /\ w.m_handle = h
           \/ w.kind = "sampler" /\ w.m_handle = h
           \/ w.kind = "image" /\ w.m_view = h
           \/ w.kind = "image" /\ w.m_allocation /\ w.m_handle = h

\* C33: whatever moves, move assignments, release calls and destructors
\* have run, no device object of a wrapper has been destroyed twice, and
\* each one not yet destroyed is held by exactly one wrapper that will
\* destroy it: once the wrappers are gone every object has been destroyed
\* exactly once.
C33_DestroyedExactlyOnce ==
    \A h \in 1..Len(deviceObjects) :
        /\ deviceObjects[h].destroyed <= 1
        /\ Cardinality({s \in WrapperSlots : Owns(s, h)}) =
               (IF deviceObjects[h].destroyed = 0 THEN 1 ELSE 0)

\* A move assignment destroyed what its target held, the target now owns
\* the source's object and the source, still alive, owns nothing; an
\* earlier object has been destroyed once.
C33_Witness ==
    /\ raLast.op = "moveAssign" /\ raLast.outcome = "destroyed"
    /\ \E from, to \in WrapperSlots :
           /\ from # to
           /\ wrappers[from].alive /\ ~wrappers[from].m_owner
           /\ \E h \in 1..Len(deviceObjects) :
                  /\ Owns(to, h)
                  /\ \E g \in 1..Len(deviceObjects) :
                         g # h /\ deviceObjects[g].destroyed = 1

\* C35: a createBuffer call with size 0, or on an allocator that is not
\* initialised, throws and creates no buffer: no device object and no
\* wrapper comes of it.
C35_CreateBufferFailsOnZeroSizeOrNoAllocator ==
    [][(/\ raLast' # raLast
        /\ raLast'.op = "createBuffer"
        /\ (raLast'.size = 0 \/ m_allocator = "null"))
          => /\ raLast'.outcome = "threw"
             /\ deviceObjects' = deviceObjects
             /\ wrappers' = wrappers]_vars

\* The last createBuffer call asked for size 0 on an initialised allocator
\* that had created a buffer before, and threw.
C35_Witness ==
    /\ raLast = ResourceCall("createBuffer", 0, "threw")
    /\ m_allocator = "live"
    /\ Len(deviceObjects) = 1

(***************************************************************************)
(* Claims about the material manager                                       *)
(***************************************************************************)
\* C34: an object handed out through a shared handle of the cache is as it
\* was created, whatever loads of its id have been made since.
C34_HandedOutPayloadUnchanged ==
    \A h \in materialHolders : materialObjects[h].payload = materialObjects[h].created

(***************************************************************************)
(* Claims about the recording of a frame                                   *)
(***************************************************************************)
\* C31: whenever recordFrame has recorded a pass, both uniform uploads of
\* the frame have completed, and the passes recorded so far are the first
\* passes of the pass sequence in the order in which they were added; when
\* the loop is over they are all of them.
C31_PassesAfterUploadsInAddedOrder ==
    /\ rfRecorded # <<>> =>
           \A u \in UniformUploads : rfUploads[u] = "signaled"
    /\ Len(rfRecorded) <= Len(m_passes)
    /\ \A i \in 1..Len(rfRecorded) : rfRecorded[i] = m_passes[i]
    /\ (rfAt = "idle" /\ rfUploads # NoUploads /\ rfRecorded # <<>>) => rfRecorded = m_passes

\* A frame of three passes has been recorded, the passes added in an order
\* that is not the alphabetical one.
C31_Witness ==
    /\ rfAt = "idle"
    /\ rfRecorded = <<"shadow", "main", "post">>
    /\ m_passes = rfRecorded
    /\ \A u \in UniformUploads : rfUploads[u] = "signaled"

====
